---- MODULE Spec2Model ----
(***************************************************************************)
(* The data-consistency layer of the back office: the document-store       *)
(* adapter (dbAdapter), the write batch and pseudo-transaction runner, the *)
(* recalculation functions and the server actions that use them.           *)
(*                                                                         *)
(* Every request to the relational store is one atomic step at the store.  *)
(* An awaited request is served in the step of the handler that awaits it  *)
(* (the handler then runs to its next await); a request whose promise the  *)
(* handler does not await (transaction.set/update called without await, a  *)
(* write pushed on a write batch) is put in `inflight` and served by the   *)
(* store at any later time, in any order.  The UI starts an action when no *)
(* request of an earlier action is still in flight.                        *)
(***************************************************************************)
EXTENDS Integers, Sequences, FiniteSets, TLC

VARIABLES
    db,        \* collection name -> (document id -> row)
    inflight,  \* requests issued to the store and not yet served, in issue order
    proc,      \* per caller: the running action, its position, locals, call stack
    nextId,    \* collection name -> next generated document id
    faults,    \* store errors still to be injected
    log,       \* events of the running action: served / failed requests, resolve, commit
    budget     \* number of actions the UI may still start

vars == <<db, inflight, proc, nextId, faults, log, budget>>

\* The callers of the session.
Procs == DOMAIN proc

----------------------------------------------------------------------------
(* Bounds of the model *)

MaxAmount == 2
MaxRecalcs == 2
MaxAddOrders == 1
MaxShippingUSD == 1
MaxLedgerActions == 2
MaxFaults == 1
MaxRepActions == 2
MaxStatusActions == 3
MaxCreditorActions == 3
MaxCreditors == 3
MaxUpdates == 2
MaxTempActions == 2
MaxNotFoundActions == 2
MaxDeliveryActions == 2
MaxValidationActions == 2
MaxQueryCalls == 2
MaxAdapterCalls == 2
MaxSettingsCalls == 2
MaxAdjustActions == 2
MaxRepeatActions == 2
MaxCounterOrders == 2
MaxTempDeletes == 1
MaxUnions == 2
MaxFrameUpdates == 2
MaxConcurrentActions == 2
MaxConcurrentOrders == 2
MaxFailedRecalcs == 1
MaxTempPayments == 2

\* The callers of a session: one UI session, or two acting at the same time.
OneCaller == {1}
TwoCallers == {1, 2}
Amounts == 0..MaxAmount
UserIds == {1, 2}

----------------------------------------------------------------------------
(* Collections and rows *)

NULL == 0

USERS_COLLECTION == "users_v4"
REPRESENTATIVES_COLLECTION == "representatives_v4"
ORDERS_COLLECTION == "orders_v4"
TEMP_ORDERS_COLLECTION == "tempOrders_v4"
TRANSACTIONS_COLLECTION == "transactions_v4"
SETTINGS_COLLECTION == "settings_v4"
EXTERNAL_DEBTS_COLLECTION == "externalDebts_v4"
CREDITORS_COLLECTION == "creditors_v4"
CONVERSATIONS_COLLECTION == "conversations_v4"

Collections ==
    {USERS_COLLECTION, REPRESENTATIVES_COLLECTION, ORDERS_COLLECTION,
     TEMP_ORDERS_COLLECTION, TRANSACTIONS_COLLECTION, SETTINGS_COLLECTION,
     EXTERNAL_DEBTS_COLLECTION, CREDITORS_COLLECTION, CONVERSATIONS_COLLECTION}

\* The id of the settings singleton, doc(db, SETTINGS_COLLECTION, 'main').
MainSettingsId == 1

EmptyRec == [x \in {} |-> 0]

\* The columns of each table with the value a column holds when a write never
\* supplied it (SQL NULL; the code reads such a value through `|| 0` or a
\* truthiness test, so NULL is modelled as 0).
DefaultRow(col) ==
    CASE col = USERS_COLLECTION ->
           [debt |-> 0, orderCount |-> 0, orderCounter |-> 0]
      [] col = REPRESENTATIVES_COLLECTION ->
           [assignedOrders |-> 0]
      [] col = ORDERS_COLLECTION ->
           [userId |-> NULL, sellingPriceLYD |-> 0, downPaymentLYD |-> 0,
            remainingAmount |-> 0, status |-> "pending", representativeId |-> NULL,
            representativeName |-> NULL, deliveryDate |-> NULL, collectedAmount |-> 0,
            exchangeRate |-> 0, customerWeightCost |-> 0,
            customerWeightCostUSD |-> 0, invoiceNumber |-> 0]
      [] col = TEMP_ORDERS_COLLECTION ->
           [assignedUserId |-> NULL, parentInvoiceId |-> NULL, status |-> "pending",
            totalAmount |-> 0, remainingAmount |-> 0,
            subOrderId |-> NULL, subOrderRemaining |-> 0]
      [] col = TRANSACTIONS_COLLECTION ->
           [orderId |-> NULL, customerId |-> NULL, type |-> "order", amount |-> 0,
            description |-> ""]
      [] col = SETTINGS_COLLECTION ->
           [exchangeRate |-> NULL, pricePerKiloLYD |-> NULL, pricePerKiloUSD |-> NULL]
      [] col = EXTERNAL_DEBTS_COLLECTION ->
           [creditorId |-> NULL, amount |-> 0]
      [] col = CREDITORS_COLLECTION ->
           [totalDebt |-> 0]
      [] col = CONVERSATIONS_COLLECTION ->
           [messages |-> [isArray |-> FALSE, items |-> <<>>]]

\* OrderStatus, the eleven values of the status set.
OrderStatus ==
    {"pending", "processed", "ready", "shipped", "arrived_dubai", "arrived_benghazi",
     "arrived_tobruk", "out_for_delivery", "delivered", "cancelled", "paid"}

\* { ...row, ...data } restricted to the table's columns.
Merge(row, data) ==
    [f \in DOMAIN row |-> IF f \in DOMAIN data THEN data[f] ELSE row[f]]

\* A function with one more (or one replaced) key.
Put(fn, k, val) ==
    [x \in DOMAIN fn \cup {k} |-> IF x = k THEN val ELSE fn[x]]

\* A function without a key.
Drop(fn, k) ==
    [x \in DOMAIN fn \ {k} |-> fn[x]]

RECURSIVE SumOver(_, _, _)
\* The sum of field f over the rows with ids in S.
SumOver(rows, S, f) ==
    IF S = {} THEN 0
    ELSE LET x == CHOOSE y \in S : TRUE
         IN rows[x][f] + SumOver(rows, S \ {x}, f)

----------------------------------------------------------------------------
(* dbAdapter: the store access shim *)

\* A get that finds a row whatever the id.
DocGet_alwaysExists(d, col, id, fail) ==
    [exists |-> TRUE,
     data |-> IF id \in DOMAIN d[col] THEN d[col][id] ELSE DefaultRow(col)]

\* dbAdapter.doc(...).get: a snapshot; a store error reads as "does not exist".
DocGet(d, col, id, fail) ==
    IF ~fail /\ id \in DOMAIN d[col]
    THEN [exists |-> TRUE, data |-> d[col][id]]
    ELSE [exists |-> FALSE, data |-> DefaultRow(col)]

\* An upsert that adds the supplied amounts to the stored ones.
DocSet_accumulating(d, col, id, data) ==
    [d EXCEPT ![col] =
        Put(@, id, LET row == IF id \in DOMAIN @ THEN @[id] ELSE DefaultRow(col)
                   IN [f \in DOMAIN row |->
                          IF f \in DOMAIN data THEN row[f] + data[f] ELSE row[f]])]

\* A simple update that inserts the row when there is none.
DocUpdatePlain_upserting(d, col, id, data) ==
    [d EXCEPT ![col] =
        Put(@, id, Merge(IF id \in DOMAIN @ THEN @[id] ELSE DefaultRow(col), data))]

\* dbAdapter.doc(...).set: an upsert of the supplied columns, with or without merge.
DocSet(d, col, id, data) ==
    [d EXCEPT ![col] =
        Put(@, id, Merge(IF id \in DOMAIN @ THEN @[id] ELSE DefaultRow(col), data))]

\* dbAdapter.doc(...).update without operators: UPDATE ... WHERE id = ..., which
\* changes nothing and reports no error when there is no such row.
DocUpdatePlain(d, col, id, data) ==
    IF id \in DOMAIN d[col]
    THEN [d EXCEPT ![col] = Put(@, id, Merge(@[id], data))]
    ELSE d

\* A stored value that Number() turns into NaN (a text such as 'abc'), encoded as
\* an integer no amount reaches.
NonNumeric == -1000

\* Number(x) || 0: a missing value (NULL) and a non-numeric one count as 0.
NumberOr0(x) == IF x = NonNumeric THEN 0 ELSE x

\* An increment that leaves the fetched value as it is.
ApplyOperators_noIncrement(current, plain, inc) ==
    [f \in DOMAIN current |->
        IF f \in DOMAIN plain THEN plain[f] ELSE current[f]]

\* An increment that replaces the fetched value by the amount.
ApplyOperators_overwrite(current, plain, inc) ==
    [f \in DOMAIN current |->
        IF f \in DOMAIN inc THEN inc[f]
        ELSE IF f \in DOMAIN plain THEN plain[f]
        ELSE current[f]]

\* dbAdapter.doc(...).update with operators, in memory: plain keys overwrite,
\* increment adds to the fetched value.
ApplyOperators(current, plain, inc) ==
    [f \in DOMAIN current |->
        IF f \in DOMAIN inc THEN NumberOr0(current[f]) + inc[f]
        ELSE IF f \in DOMAIN plain THEN plain[f]
        ELSE current[f]]

\* Array.prototype.includes compares with SameValueZero: two primitives are the
\* same when their values are; an object is the same as no object of a fetched row,
\* which are fresh objects parsed from the response.
SameValueZero(a, b) == ~a.object /\ ~b.object /\ a.v = b.v

\* updated[key].includes(value)
Includes(items, value) == \E i \in 1..Len(items) : SameValueZero(items[i], value)

\* The arrayUnion branch on one field: a value that is not an array is replaced by
\* [], then the value is pushed unless the array includes it.
ArrayUnionField(field, value) ==
    LET items == IF field.isArray THEN field.items ELSE <<>>
    IN [isArray |-> TRUE,
        items |-> IF Includes(items, value) THEN items ELSE Append(items, value)]

\* dbAdapter.doc(...).update with arrayUnion operators, in memory.
ApplyArrayUnion(current, plain, union) ==
    [f \in DOMAIN current |->
        IF f \in DOMAIN union THEN ArrayUnionField(current[f], union[f])
        ELSE IF f \in DOMAIN plain THEN plain[f]
        ELSE current[f]]

\* dbAdapter.doc(...).delete.
DocDelete(d, col, id) ==
    [d EXCEPT ![col] = Drop(@, id)]

\* One condition of a query. '==' is query.eq(field, value), the comparison
\* field = value of the relational store, which is true of no row when the value
\* is null (only query.is tests for null); an operator other than '==' and 'in'
\* adds no filter.
CondHolds(row, cond) ==
    CASE cond.op = "==" -> cond.value # NULL /\ row[cond.field] = cond.value
      [] cond.op = "in" -> row[cond.field] \in cond.value
      [] OTHER -> TRUE

\* dbAdapter.query: the matching rows; a store error reads as an empty result.
DbQuery(d, col, conditions, fail) ==
    IF fail THEN EmptyRec
    ELSE LET hit == {id \in DOMAIN d[col] :
                        \A i \in 1..Len(conditions) : CondHolds(d[col][id], conditions[i])}
         IN [id \in hit |-> d[col][id]]

where(field, op, value) == [field |-> field, op |-> op, value |-> value]

----------------------------------------------------------------------------
(* Requests in flight *)

\* A write whose promise is not awaited where it is issued.
\*   kind  : "set" | "update" | "write" (the write-back of an operator update) | "delete"
\*   tag   : "tx" (issued through the transaction object) | "batch" (write batch)
\*   aid   : the serial number of the action that issued it;  seq : its issue index
Request(kind, col, id, plain, inc, tag, aid, seq, owner) ==
    [kind |-> kind, col |-> col, id |-> id, plain |-> plain, inc |-> inc,
     tag |-> tag, aid |-> aid, seq |-> seq, owner |-> owner]

Event(e, aid, seq, tag) == [e |-> e, aid |-> aid, seq |-> seq, tag |-> tag]

FailChoice == IF faults > 0 THEN {FALSE, TRUE} ELSE {FALSE}

----------------------------------------------------------------------------
(* Callers, frames, return and throw *)

Idle == [act |-> "idle", pc |-> "idle", v |-> EmptyRec, stack |-> <<>>, aid |-> 0,
         pre |-> EmptyRec,
         last |-> [act |-> "none", ok |-> FALSE, val |-> 0, threw |-> FALSE, arg |-> 0]]

Result(ok, val) == [ok |-> ok, val |-> val, threw |-> FALSE]

Thrown == [ok |-> FALSE, val |-> 0, threw |-> TRUE]

\* Whether the function has a try/catch around its body that returns a sentinel.
Catches(act) ==
    act \notin {"recalculateUserStats", "addCreditor", "addExternalDebt",
                "updateExternalDebt", "deleteExternalDebt"}

\* The function returns `res`: to its caller's continuation, or to the UI.
Return(st, res) ==
    IF st.stack = <<>>
    THEN [Idle EXCEPT !.aid = st.aid, !.pre = st.pre,
                      !.last = [act |-> st.act, ok |-> res.ok, val |-> res.val,
                                threw |-> res.threw, arg |-> st.v.arg]]
    ELSE LET top == st.stack[Len(st.stack)]
         IN [st EXCEPT !.act = top.act, !.pc = top.pc,
                       !.v = Put(top.v, "res", res),
                       !.stack = SubSeq(st.stack, 1, Len(st.stack) - 1)]

RECURSIVE Throw(_)
\* An exception in the function: its catch block returns the sentinel (false or
\* null); a function without a catch passes the exception to its caller.
Throw(st) ==
    IF Catches(st.act) THEN Return(st, Result(FALSE, 0))
    ELSE IF st.stack = <<>> THEN Return(st, Thrown)
    ELSE LET top == st.stack[Len(st.stack)]
         IN Throw([st EXCEPT !.act = top.act, !.pc = top.pc, !.v = top.v,
                             !.stack = SubSeq(st.stack, 1, Len(st.stack) - 1)])

\* The function calls `act` and continues at `cont` when it returns.
Call(st, act, pc, v, cont) ==
    [st EXCEPT !.act = act, !.pc = pc, !.v = v,
               !.stack = Append(st.stack, [act |-> st.act, pc |-> cont, v |-> st.v])]

\* What one step of a handler does: its new frame, the store after the awaited
\* request it served, the un-awaited requests it issued, the ids it generated.
Effect(st, d, ops, ids, faulted, evs) ==
    [st |-> st, db |-> d, ops |-> ops, ids |-> ids, faulted |-> faulted, evs |-> evs]

\* A step that serves no request of its own and issues none.
Local(st) == Effect(st, db, <<>>, nextId, FALSE, <<>>)

Do(p, eff) ==
    /\ proc' = [proc EXCEPT ![p] = eff.st]
    /\ db' = eff.db
    /\ inflight' = inflight \o eff.ops
    /\ nextId' = eff.ids
    /\ faults' = IF eff.faulted THEN faults - 1 ELSE faults
    /\ log' = log \o eff.evs
    /\ UNCHANGED budget

\* A top-level call by the UI, made when every earlier request has been served: a
\* new action with a fresh log. `pre` keeps the store as the action found it.
Begin(p, act, pc, v) ==
    /\ inflight = <<>>
    /\ budget > 0
    /\ budget' = budget - 1
    /\ proc' = [proc EXCEPT ![p] = [act |-> act, pc |-> pc, v |-> v, stack |-> <<>>,
                                    aid |-> budget, pre |-> db,
                                    last |-> Idle.last]]
    /\ log' = <<>>
    /\ UNCHANGED <<db, inflight, nextId, faults>>

----------------------------------------------------------------------------
(* The store serves a request in flight *)

ServeEffect(d, op, fail) ==
    IF fail THEN [db |-> d, next |-> <<>>, ev |-> "fail"]
    ELSE CASE op.kind = "set" ->
                [db |-> DocSet(d, op.col, op.id, op.plain), next |-> <<>>, ev |-> "apply"]
           [] op.kind = "setMerge" ->
                \* options.merge: the branch issues the same upsert
                [db |-> DocSet(d, op.col, op.id, op.plain), next |-> <<>>, ev |-> "apply"]
           [] op.kind = "delete" ->
                [db |-> DocDelete(d, op.col, op.id), next |-> <<>>, ev |-> "apply"]
           [] op.kind = "write" ->
                [db |-> DocUpdatePlain(d, op.col, op.id, op.plain), next |-> <<>>,
                 ev |-> "apply"]
           [] op.kind = "update" /\ DOMAIN op.inc = {} ->
                [db |-> DocUpdatePlain(d, op.col, op.id, op.plain), next |-> <<>>,
                 ev |-> "apply"]
           [] op.kind = "update" /\ DOMAIN op.inc # {} ->
                \* fetch-modify-write: this is the fetch
                IF op.id \in DOMAIN d[op.col]
                THEN [db |-> d,
                      next |-> <<[op EXCEPT !.kind = "write",
                                            !.plain = ApplyOperators(d[op.col][op.id],
                                                                     op.plain, op.inc),
                                            !.inc = EmptyRec]>>,
                      ev |-> "fetch"]
                ELSE [db |-> d, next |-> <<>>, ev |-> "fail"]
           [] op.kind = "updateUnion" ->
                \* an update whose operators are arrayUnion: the same fetch
                IF op.id \in DOMAIN d[op.col]
                THEN [db |-> d,
                      next |-> <<[op EXCEPT !.kind = "write",
                                            !.plain = ApplyArrayUnion(d[op.col][op.id],
                                                                      op.plain, op.inc),
                                            !.inc = EmptyRec]>>,
                      ev |-> "fetch"]
                ELSE [db |-> d, next |-> <<>>, ev |-> "fail"]

Serve ==
    \E i \in 1..Len(inflight) : \E fail \in FailChoice :
        LET op == inflight[i]
            r == ServeEffect(db, op, fail)
            p == op.owner
        IN /\ db' = r.db
           /\ inflight' = SubSeq(inflight, 1, i - 1) \o r.next
                              \o SubSeq(inflight, i + 1, Len(inflight))
           /\ faults' = IF fail THEN faults - 1 ELSE faults
           /\ log' = IF r.ev = "fetch" THEN log
                     ELSE Append(log, Event(r.ev, op.aid, op.seq, op.tag))
           /\ proc' = IF r.ev = "fail" /\ op.tag = "batch" /\ proc[p].aid = op.aid
                         /\ "batchErr" \in DOMAIN proc[p].v
                      THEN [proc EXCEPT ![p].v.batchErr = TRUE]
                      ELSE proc
           /\ UNCHANGED <<nextId, budget>>

----------------------------------------------------------------------------
(* recalculateUserStats *)

activeStatuses ==
    {"pending", "processed", "ready", "shipped", "arrived_dubai", "arrived_benghazi",
     "arrived_tobruk", "out_for_delivery", "delivered", "paid"}

\* The orders query without the status filter.
userOrdersQuery_anyStatus(userId) ==
    <<where("userId", "==", userId)>>

\* where("userId", "==", userId), where("status", "in", activeStatuses)
userOrdersQuery(userId) ==
    <<where("userId", "==", userId), where("status", "in", activeStatuses)>>

\* where("assignedUserId", "==", userId), where("parentInvoiceId", "==", null)
tempOrdersDirectQuery(userId) ==
    <<where("assignedUserId", "==", userId), where("parentInvoiceId", "==", NULL)>>

\* The temp orders of the snapshot that add to the debt: status !== 'cancelled'.
CountedTempOrders(snapshot) ==
    {t \in DOMAIN snapshot : snapshot[t].status # "cancelled"}

\* A run that starts from the debt an earlier run stored instead of from 0.
RecalcFrame_accumulating(userId) ==
    LET stored == IF userId \in DOMAIN db[USERS_COLLECTION]
                  THEN db[USERS_COLLECTION][userId].debt ELSE 0
    IN [arg |-> userId, totalDebt |-> IF stored > 2 * MaxAmount THEN 0 ELSE stored,
        orderCount |-> 0]

RecalcFrame(userId) ==
    [arg |-> userId, totalDebt |-> 0, orderCount |-> 0]

\* One step of recalculateUserStats(userId): the orders query, the temp orders
\* query, then the update of the user document.
RecalcStep(st, fail) ==
    LET userId == st.v.arg
    IN CASE st.pc = "rc_orders" ->
              LET snap == DbQuery(db, ORDERS_COLLECTION, userOrdersQuery(userId), fail)
              IN Effect([st EXCEPT !.pc = "rc_temps",
                                   !.v.orderCount = @ + Cardinality(DOMAIN snap),
                                   !.v.totalDebt = @ + SumOver(snap, DOMAIN snap,
                                                               "remainingAmount")],
                        db, <<>>, nextId, fail, <<>>)
         [] st.pc = "rc_temps" ->
              LET snap == DbQuery(db, TEMP_ORDERS_COLLECTION,
                                  tempOrdersDirectQuery(userId), fail)
              IN Effect([st EXCEPT !.pc = "rc_write",
                                   !.v.totalDebt = @ + SumOver(snap, CountedTempOrders(snap),
                                                               "remainingAmount")],
                        db, <<>>, nextId, fail, <<>>)
         [] st.pc = "rc_write" ->
              IF fail THEN Effect(Throw(st), db, <<>>, nextId, TRUE, <<>>)
              ELSE Effect(Return(st, Result(TRUE, 0)),
                          DocUpdatePlain(db, USERS_COLLECTION, userId,
                                         [debt |-> st.v.totalDebt,
                                          orderCount |-> st.v.orderCount]),
                          <<>>, nextId, FALSE, <<>>)

\* recalculateUserStats running, called by the UI or by another action.
RecalculateUserStats(p) ==
    /\ proc[p].act = "recalculateUserStats"
    /\ \E fail \in FailChoice : Do(p, RecalcStep(proc[p], fail))

\* The UI (or a repair job) calls recalculateUserStats(userId).
CallRecalculateUserStats(p) ==
    /\ proc[p].act = "idle"
    /\ \E userId \in UserIds :
          Begin(p, "recalculateUserStats", "rc_orders", RecalcFrame(userId))

----------------------------------------------------------------------------
(* getAppSettings *)

\* Defaults whose exchange rate is 0.
defaults_zeroRate == [exchangeRate |-> 0, pricePerKiloLYD |-> 0, pricePerKiloUSD |-> 0]

defaults == [exchangeRate |-> 1, pricePerKiloLYD |-> 0, pricePerKiloUSD |-> 0]

\* value ?? fallback
Nullish(value, fallback) == IF value = NULL THEN fallback ELSE value

\* One step of getAppSettings(): read the 'main' settings document; create it with
\* the defaults when it does not exist. Returns the settings.
GetAppSettingsStep(st, fail) ==
    CASE st.pc = "gs_get" ->
           LET docSnap == DocGet(db, SETTINGS_COLLECTION, MainSettingsId, fail)
           IN IF docSnap.exists
              THEN Effect(Return(st, Result(TRUE,
                                 [f \in DOMAIN defaults |->
                                     Nullish(docSnap.data[f], defaults[f])])),
                          db, <<>>, nextId, fail, <<>>)
              ELSE Effect([st EXCEPT !.pc = "gs_set"], db, <<>>, nextId, fail, <<>>)
      [] st.pc = "gs_set" ->
           Effect(Return(st, Result(TRUE, defaults)),
                  IF fail THEN db
                  ELSE DocSet(db, SETTINGS_COLLECTION, MainSettingsId, defaults),
                  <<>>, nextId, fail, <<>>)

GetAppSettings(p) ==
    /\ proc[p].act = "getAppSettings"
    /\ \E fail \in FailChoice : Do(p, GetAppSettingsStep(proc[p], fail))

SettingsFrame == [arg |-> 0]

----------------------------------------------------------------------------
(* addOrder *)

InitialRemaining_ignoreDownPayment(orderData) ==
    orderData.sellingPriceLYD

\* remainingAmount at creation: (sellingPriceLYD || 0) - (downPaymentLYD || 0).
InitialRemaining(orderData) ==
    orderData.sellingPriceLYD - orderData.downPaymentLYD

\* The rows addOrder's transaction callback writes, in the order it issues them:
\* the order, the 'order' transaction, the 'payment' transaction of a down
\* payment, the increment of the user's orderCounter. None of the four calls on
\* the transaction object is awaited.
AddOrderWrites(p, st, orderId, exchangeRate) ==
    LET orderData == st.v.arg
        userData == st.v.userData
        newOrderCount == userData.orderCounter + 1
        remainingAmount == InitialRemaining(orderData)
        txId == nextId[TRANSACTIONS_COLLECTION]
        hasDown == orderData.downPaymentLYD > 0
        setOrder ==
            Request("set", ORDERS_COLLECTION, orderId,
                    [userId |-> orderData.userId,
                     sellingPriceLYD |-> orderData.sellingPriceLYD,
                     downPaymentLYD |-> orderData.downPaymentLYD,
                     status |-> orderData.status,
                     invoiceNumber |-> newOrderCount,
                     exchangeRate |-> exchangeRate,
                     remainingAmount |-> remainingAmount],
                    EmptyRec, "tx", st.aid, 1, p)
        setOrderTx ==
            Request("set", TRANSACTIONS_COLLECTION, txId,
                    [orderId |-> orderId, customerId |-> orderData.userId,
                     type |-> "order", amount |-> orderData.sellingPriceLYD,
                     description |-> "new order"],
                    EmptyRec, "tx", st.aid, 2, p)
        setPaymentTx ==
            Request("set", TRANSACTIONS_COLLECTION, txId + 1,
                    [orderId |-> orderId, customerId |-> orderData.userId,
                     type |-> "payment", amount |-> orderData.downPaymentLYD,
                     description |-> "down payment"],
                    EmptyRec, "tx", st.aid, 3, p)
        incCounter ==
            Request("update", USERS_COLLECTION, orderData.userId,
                    EmptyRec, [orderCounter |-> 1], "tx", st.aid,
                    IF hasDown THEN 4 ELSE 3, p)
    IN IF hasDown THEN <<setOrder, setOrderTx, setPaymentTx, incCounter>>
       ELSE <<setOrder, setOrderTx, incCounter>>

\* One step of addOrder(orderData).
AddOrderStep(p, st, fail) ==
    LET orderData == st.v.arg
    IN CASE st.pc = "ao_user" ->
              \* transaction.get(userRef)
              LET userDoc == DocGet(db, USERS_COLLECTION, orderData.userId, fail)
              IN IF ~userDoc.exists
                 THEN Effect(Throw(st), db, <<>>, nextId, fail, <<>>)
                 ELSE Effect(Call([st EXCEPT !.v.userData = userDoc.data],
                                  "getAppSettings", "gs_get", SettingsFrame, "ao_write"),
                             db, <<>>, nextId, fail, <<>>)
         [] st.pc = "ao_write" ->
              \* the rest of the callback; runTransaction resolves with orderRef
              LET orderId == nextId[ORDERS_COLLECTION]
                  ops == AddOrderWrites(p, st, orderId, st.v.res.val.exchangeRate)
              IN Effect([st EXCEPT !.pc = "ao_getNew", !.v.orderId = orderId],
                        db, ops,
                        [nextId EXCEPT ![ORDERS_COLLECTION] = @ + 1,
                                       ![TRANSACTIONS_COLLECTION] = @ + Len(ops) - 2],
                        FALSE, <<Event("resolve", st.aid, 0, "tx")>>)
         [] st.pc = "ao_getNew" ->
              \* getDoc(newDocRef)
              LET newOrderSnap == DocGet(db, ORDERS_COLLECTION, st.v.orderId, fail)
              IN IF newOrderSnap.exists
                 THEN Effect(Call(st, "recalculateUserStats", "rc_orders",
                                  RecalcFrame(newOrderSnap.data.userId), "ao_ret"),
                             db, <<>>, nextId, fail, <<>>)
                 ELSE Effect(Return(st, Result(FALSE, 0)), db, <<>>, nextId, fail, <<>>)
         [] st.pc = "ao_ret" ->
              Local(Return(st, Result(TRUE, st.v.orderId)))

AddOrder(p) ==
    /\ proc[p].act = "addOrder"
    /\ \E fail \in FailChoice : Do(p, AddOrderStep(p, proc[p], fail))

\* The UI calls addOrder(orderData); user 3 does not exist.
CallAddOrder(p) ==
    /\ proc[p].act = "idle"
    /\ \E userId \in UserIds \cup {3}, S \in Amounts, D \in Amounts :
          Begin(p, "addOrder", "ao_user",
                [arg |-> [userId |-> userId, sellingPriceLYD |-> S,
                          downPaymentLYD |-> D, status |-> "pending"],
                 userData |-> DefaultRow(USERS_COLLECTION), orderId |-> NULL])

----------------------------------------------------------------------------
(* The tail shared by the order adjustments: re-read the order, recalculate *)

\* A validation that lets every amount through.
IsNegative_never(x) == FALSE

\* `if (weight < 0) return false`, `if (costInUSD < 0) return false`: the check
\* made before anything else.
IsNegative(x) == x < 0

\* customerId.startsWith('TEMP-'): the customers of a temp order's sub-orders are
\* modelled as negative ids.
IsTempCustomer(customerId) == customerId < 0

\* const orderSnap = await getDoc(orderRef); if it exists and has a userId,
\* await recalculateUserStats(userId); return true.
RecalculateOwner(st, orderId, fail, cont) ==
    LET orderSnap == DocGet(db, ORDERS_COLLECTION, orderId, fail)
    IN IF orderSnap.exists /\ orderSnap.data.userId # NULL
       THEN Effect(Call([st EXCEPT !.pc = cont], "recalculateUserStats", "rc_orders",
                        RecalcFrame(orderSnap.data.userId), cont),
                   db, <<>>, nextId, fail, <<>>)
       ELSE Effect(Return(st, Result(TRUE, 0)), db, <<>>, nextId, fail, <<>>)

----------------------------------------------------------------------------
(* setCustomerWeightDetails *)

\* A ledger entry for every weight change, a zero delta included.
LogsWeightChange_always(costDifference) == TRUE

\* if (costDifference !== 0): the weight change gets a ledger entry.
LogsWeightChange(costDifference) == costDifference # 0

\* One step of setCustomerWeightDetails(orderId, weight, _, customerPricePerKilo).
SetCustomerWeightDetailsStep(p, st, fail) ==
    LET orderId == st.v.arg.orderId
        weight == st.v.arg.weight
    IN CASE st.pc = "sw_get" ->
              IF IsNegative(weight) THEN Local(Return(st, Result(FALSE, 0)))
              ELSE
              LET orderDoc == DocGet(db, ORDERS_COLLECTION, orderId, fail)
                  orderData == orderDoc.data
                  newCustomerTotalCostLYD == weight * st.v.arg.customerPricePerKilo
                  costDifference == newCustomerTotalCostLYD - orderData.customerWeightCost
                  updateOrder ==
                      Request("update", ORDERS_COLLECTION, orderId,
                              [sellingPriceLYD |-> orderData.sellingPriceLYD + costDifference,
                               remainingAmount |-> orderData.remainingAmount + costDifference,
                               customerWeightCost |-> newCustomerTotalCostLYD],
                              EmptyRec, "tx", st.aid, 1, p)
                  setTx ==
                      Request("set", TRANSACTIONS_COLLECTION, nextId[TRANSACTIONS_COLLECTION],
                              [orderId |-> orderId, customerId |-> orderData.userId,
                               type |-> "order", amount |-> costDifference,
                               description |-> "weight"],
                              EmptyRec, "tx", st.aid, 2, p)
              IN IF ~orderDoc.exists
                 THEN Effect(Throw(st), db, <<>>, nextId, fail, <<>>)
                 ELSE Effect([st EXCEPT !.pc = "sw_final"], db,
                             IF LogsWeightChange(costDifference)
                             THEN <<updateOrder, setTx>>
                             ELSE <<updateOrder>>,
                             IF LogsWeightChange(costDifference)
                             THEN [nextId EXCEPT ![TRANSACTIONS_COLLECTION] = @ + 1]
                             ELSE nextId,
                             fail, <<Event("resolve", st.aid, 0, "tx")>>)
         [] st.pc = "sw_final" -> RecalculateOwner(st, orderId, fail, "sw_ret")
         [] st.pc = "sw_ret" -> Local(Return(st, Result(TRUE, 0)))

SetCustomerWeightDetails(p) ==
    /\ proc[p].act = "setCustomerWeightDetails"
    /\ \E fail \in FailChoice : Do(p, SetCustomerWeightDetailsStep(p, proc[p], fail))

\* The UI calls setCustomerWeightDetails on an order, at one LYD per kilo.
CallSetCustomerWeightDetails(p) ==
    /\ proc[p].act = "idle"
    /\ \E orderId \in DOMAIN db[ORDERS_COLLECTION], weight \in -1..MaxAmount :
          Begin(p, "setCustomerWeightDetails", "sw_get",
                [arg |-> [orderId |-> orderId, weight |-> weight, customerPricePerKilo |-> 1]])

----------------------------------------------------------------------------
(* addCustomerShippingCost *)

\* The update with the new cost in place of the cost difference.
ShippingCostWrite_absolute(p, st, orderData, exchangeRate) ==
    LET costInUSD == st.v.arg.costInUSD
        costLYD == costInUSD * exchangeRate
    IN Request("update", ORDERS_COLLECTION, st.v.arg.orderId,
               [sellingPriceLYD |-> orderData.sellingPriceLYD + costLYD,
                customerWeightCostUSD |-> costInUSD],
               [remainingAmount |-> costLYD], "tx", st.aid, 1, p)

\* transaction.update(orderRef, { sellingPriceLYD, remainingAmount: increment(..),
\* customerWeightCostUSD }), not awaited.
ShippingCostWrite(p, st, orderData, exchangeRate) ==
    LET costInUSD == st.v.arg.costInUSD
        costDifferenceUSD == costInUSD - orderData.customerWeightCostUSD
        costDifferenceLYD == costDifferenceUSD * exchangeRate
    IN Request("update", ORDERS_COLLECTION, st.v.arg.orderId,
               [sellingPriceLYD |-> orderData.sellingPriceLYD + costDifferenceLYD,
                customerWeightCostUSD |-> costInUSD],
               [remainingAmount |-> costDifferenceLYD], "tx", st.aid, 1, p)

\* One step of addCustomerShippingCost(orderId, costInUSD).
AddCustomerShippingCostStep(p, st, fail) ==
    CASE st.pc = "sc_get" ->
           IF IsNegative(st.v.arg.costInUSD) THEN Local(Return(st, Result(FALSE, 0)))
           ELSE
           LET orderDoc == DocGet(db, ORDERS_COLLECTION, st.v.arg.orderId, fail)
           IN IF ~orderDoc.exists
              THEN Effect(Throw(st), db, <<>>, nextId, fail, <<>>)
              ELSE IF orderDoc.data.exchangeRate # 0
              THEN Effect([st EXCEPT !.pc = "sc_final"], db,
                          <<ShippingCostWrite(p, st, orderDoc.data,
                                              orderDoc.data.exchangeRate)>>,
                          nextId, fail, <<Event("resolve", st.aid, 0, "tx")>>)
              ELSE Effect(Call([st EXCEPT !.v.orderData = orderDoc.data],
                               "getAppSettings", "gs_get", SettingsFrame, "sc_write"),
                          db, <<>>, nextId, fail, <<>>)
      [] st.pc = "sc_write" ->
           Effect([st EXCEPT !.pc = "sc_final"], db,
                  <<ShippingCostWrite(p, st, st.v.orderData,
                                      st.v.res.val.exchangeRate)>>,
                  nextId, FALSE, <<Event("resolve", st.aid, 0, "tx")>>)
      [] st.pc = "sc_final" -> RecalculateOwner(st, st.v.arg.orderId, fail, "sc_ret")
      [] st.pc = "sc_ret" -> Local(Return(st, Result(TRUE, 0)))

AddCustomerShippingCost(p) ==
    /\ proc[p].act = "addCustomerShippingCost"
    /\ \E fail \in FailChoice : Do(p, AddCustomerShippingCostStep(p, proc[p], fail))

CallAddCustomerShippingCost(p) ==
    /\ proc[p].act = "idle"
    /\ \E orderId \in DOMAIN db[ORDERS_COLLECTION], costInUSD \in -1..MaxShippingUSD :
          Begin(p, "addCustomerShippingCost", "sc_get",
                [arg |-> [orderId |-> orderId, costInUSD |-> costInUSD],
                 orderData |-> DefaultRow(ORDERS_COLLECTION)])

----------------------------------------------------------------------------
(* writeBatch *)

\* batch.update / batch.delete: `promises.push(ref.update(data))` sends the request
\* when it is queued and keeps its promise.
BatchOp(kind, col, id, plain, inc, st, seq, p) ==
    Request(kind, col, id, plain, inc, "batch", st.aid, seq, p)

\* batch.commit() is called: it awaits Promise.all(promises).
CommitCalled(st) == Event("commit", st.aid, 0, "batch")

\* Promise.all(promises) is settled: every promise is fulfilled, or one rejected.
BatchSettled(p) ==
    \/ proc[p].v.batchErr
    \/ \A i \in 1..Len(inflight) :
          ~(inflight[i].owner = p /\ inflight[i].tag = "batch"
              /\ inflight[i].aid = proc[p].aid)

----------------------------------------------------------------------------
(* addTransaction, updateTransaction, deleteTransaction *)

\* remainingAmount after a payment: newRemaining < 0 ? 0 : newRemaining.
RemainingAfterPayment_unclamped(remainingAmount, amount) ==
    remainingAmount - amount

RemainingAfterPayment(remainingAmount, amount) ==
    LET newRemaining == remainingAmount - amount
    IN IF newRemaining < 0 THEN 0 ELSE newRemaining

\* After runTransaction: recalculate the customer unless it is a TEMP- customer,
\* then return the new id.
AfterAddTransaction(st) ==
    LET customerId == st.v.arg.customerId
    IN IF customerId # NULL /\ ~IsTempCustomer(customerId)
       THEN Call([st EXCEPT !.pc = "at_ret"], "recalculateUserStats", "rc_orders",
                 RecalcFrame(customerId), "at_ret")
       ELSE Return(st, Result(TRUE, st.v.txId))

\* One step of addTransaction(transactionData).
AddTransactionStep(p, st, fail) ==
    LET transactionData == st.v.arg
        newDocRef == nextId[TRANSACTIONS_COLLECTION]
        ids == [nextId EXCEPT ![TRANSACTIONS_COLLECTION] = @ + 1]
        st1 == [st EXCEPT !.v.txId = newDocRef]
        setTx(seq) == Request("set", TRANSACTIONS_COLLECTION, newDocRef, transactionData,
                              EmptyRec, "tx", st.aid, seq, p)
        resolved == <<Event("resolve", st.aid, 0, "tx")>>
    IN CASE st.pc = "at_start" ->
              IF transactionData.type = "payment" /\ transactionData.orderId # NULL
              THEN LET orderDoc == DocGet(db, ORDERS_COLLECTION, transactionData.orderId,
                                          fail)
                       updateOrder ==
                           Request("update", ORDERS_COLLECTION, transactionData.orderId,
                                   [remainingAmount |->
                                       RemainingAfterPayment(orderDoc.data.remainingAmount,
                                                             transactionData.amount)],
                                   EmptyRec, "tx", st.aid, 1, p)
                   IN Effect(AfterAddTransaction(st1), db,
                             IF orderDoc.exists THEN <<updateOrder, setTx(2)>>
                             ELSE <<setTx(1)>>,
                             ids, fail, resolved)
              ELSE Effect(AfterAddTransaction(st1), db, <<setTx(1)>>, ids, FALSE, resolved)
         [] st.pc = "at_ret" -> Local(Return(st, Result(TRUE, st.v.txId)))

AddTransaction(p) ==
    /\ proc[p].act = "addTransaction"
    /\ \E fail \in FailChoice : Do(p, AddTransactionStep(p, proc[p], fail))

\* The UI records a payment of a customer against one of the orders.
CallAddTransaction(p) ==
    /\ proc[p].act = "idle"
    /\ \E orderId \in DOMAIN db[ORDERS_COLLECTION], amount \in 1..MaxAmount :
          Begin(p, "addTransaction", "at_start",
                [arg |-> [orderId |-> orderId,
                          customerId |-> db[ORDERS_COLLECTION][orderId].userId,
                          type |-> "payment", amount |-> amount, description |-> ""],
                 txId |-> NULL])

\* One step of updateTransaction(transactionId, newAmount).
UpdateTransactionStep(p, st, fail) ==
    LET transactionId == st.v.arg.transactionId
        newAmount == st.v.arg.newAmount
    IN CASE st.pc = "ut_get" ->
              LET txDoc == DocGet(db, TRANSACTIONS_COLLECTION, transactionId, fail)
                  txData == txDoc.data
                  amountDifference == newAmount - txData.amount
                  updateTx ==
                      Request("update", TRANSACTIONS_COLLECTION, transactionId,
                              [amount |-> newAmount], EmptyRec, "tx", st.aid, 1, p)
                  updateOrder ==
                      Request("update", ORDERS_COLLECTION, txData.orderId, EmptyRec,
                              [remainingAmount |-> -amountDifference], "tx", st.aid, 2, p)
              IN IF ~txDoc.exists
                 THEN Effect(Throw(st), db, <<>>, nextId, fail, <<>>)
                 ELSE Effect([st EXCEPT !.pc = "ut_final"], db,
                             IF txData.orderId # NULL THEN <<updateTx, updateOrder>>
                             ELSE <<updateTx>>,
                             nextId, fail, <<Event("resolve", st.aid, 0, "tx")>>)
         [] st.pc = "ut_final" ->
              LET finalTxDoc == DocGet(db, TRANSACTIONS_COLLECTION, transactionId, fail)
                  userId == finalTxDoc.data.customerId
              IN IF finalTxDoc.exists /\ userId # NULL /\ ~IsTempCustomer(userId)
                 THEN Effect(Call(st, "recalculateUserStats", "rc_orders",
                                  RecalcFrame(userId), "ut_ret"),
                             db, <<>>, nextId, fail, <<>>)
                 ELSE Effect(Return(st, Result(TRUE, 0)), db, <<>>, nextId, fail, <<>>)
         [] st.pc = "ut_ret" -> Local(Return(st, Result(TRUE, 0)))

UpdateTransaction(p) ==
    /\ proc[p].act = "updateTransaction"
    /\ \E fail \in FailChoice : Do(p, UpdateTransactionStep(p, proc[p], fail))

\* The payment entries the ledger screen lists.
PaymentTransactions(d) ==
    {t \in DOMAIN d[TRANSACTIONS_COLLECTION] : d[TRANSACTIONS_COLLECTION][t].type = "payment"}

\* The UI edits the amount of a payment entry.
CallUpdateTransaction(p) ==
    /\ proc[p].act = "idle"
    /\ \E transactionId \in PaymentTransactions(db), newAmount \in Amounts :
          Begin(p, "updateTransaction", "ut_get",
                [arg |-> [transactionId |-> transactionId, newAmount |-> newAmount]])

\* One step of deleteTransaction(transactionId).
DeleteTransactionStep(p, st, fail) ==
    LET transactionId == st.v.arg
    IN CASE st.pc = "dt_get" ->
              LET txDoc == DocGet(db, TRANSACTIONS_COLLECTION, transactionId, fail)
                  txData == txDoc.data
                  updateOrder ==
                      BatchOp("update", ORDERS_COLLECTION, txData.orderId, EmptyRec,
                              [remainingAmount |-> txData.amount], st, 1, p)
                  deleteTx(seq) ==
                      BatchOp("delete", TRANSACTIONS_COLLECTION, transactionId, EmptyRec,
                              EmptyRec, st, seq, p)
              IN IF ~txDoc.exists
                 THEN Effect(Throw(st), db, <<>>, nextId, fail, <<>>)
                 ELSE Effect([st EXCEPT !.pc = "dt_commit",
                                        !.v.userId = txData.customerId],
                             db,
                             IF txData.orderId # NULL THEN <<updateOrder, deleteTx(2)>>
                             ELSE <<deleteTx(1)>>,
                             nextId, fail, <<CommitCalled(st)>>)
         [] st.pc = "dt_commit" ->
              \* await batch.commit() returns or throws
              IF st.v.batchErr THEN Local(Throw(st))
              ELSE IF st.v.userId # NULL /\ ~IsTempCustomer(st.v.userId)
              THEN Local(Call(st, "recalculateUserStats", "rc_orders",
                              RecalcFrame(st.v.userId), "dt_ret"))
              ELSE Local(Return(st, Result(TRUE, 0)))
         [] st.pc = "dt_ret" -> Local(Return(st, Result(TRUE, 0)))

DeleteTransaction(p) ==
    /\ proc[p].act = "deleteTransaction"
    /\ proc[p].pc = "dt_commit" => BatchSettled(p)
    /\ \E fail \in FailChoice : Do(p, DeleteTransactionStep(p, proc[p], fail))

\* The UI deletes a payment entry.
CallDeleteTransaction(p) ==
    /\ proc[p].act = "idle"
    /\ \E transactionId \in PaymentTransactions(db) :
          Begin(p, "deleteTransaction", "dt_get",
                [arg |-> transactionId,
                 batchErr |-> FALSE,
                 userId |-> NULL])

----------------------------------------------------------------------------
(* updateOrder *)

\* One step of updateOrder(orderId, data).
UpdateOrderStep(p, st, fail) ==
    LET orderId == st.v.arg.orderId
    IN CASE st.pc = "uo_get" ->
              LET orderSnap == DocGet(db, ORDERS_COLLECTION, orderId, fail)
              IN IF ~orderSnap.exists
                 THEN Effect(Return(st, Result(FALSE, 0)), db, <<>>, nextId, fail, <<>>)
                 ELSE Effect([st EXCEPT !.pc = "uo_update",
                                        !.v.userId = orderSnap.data.userId],
                             db, <<>>, nextId, fail, <<>>)
         [] st.pc = "uo_update" ->
              \* await updateDoc(orderRef, data)
              IF fail THEN Effect(Throw(st), db, <<>>, nextId, TRUE, <<>>)
              ELSE Effect(IF st.v.userId # NULL
                          THEN Call(st, "recalculateUserStats", "rc_orders",
                                    RecalcFrame(st.v.userId), "uo_ret")
                          ELSE Return(st, Result(TRUE, 0)),
                          DocUpdatePlain(db, ORDERS_COLLECTION, orderId, st.v.arg.data),
                          <<>>, nextId, FALSE, <<>>)
         [] st.pc = "uo_ret" -> Local(Return(st, Result(TRUE, 0)))

UpdateOrder(p) ==
    /\ proc[p].act = "updateOrder"
    /\ \E fail \in FailChoice : Do(p, UpdateOrderStep(p, proc[p], fail))

\* The statuses the order screens set in the bounded runs.
EditedStatuses == {"cancelled", "delivered"}

\* The UI saves an order with a new status.
CallUpdateOrder(p) ==
    /\ proc[p].act = "idle"
    /\ \E orderId \in DOMAIN db[ORDERS_COLLECTION], status \in EditedStatuses :
          Begin(p, "updateOrder", "uo_get",
                [arg |-> [orderId |-> orderId, data |-> [status |-> status]],
                 userId |-> NULL])

----------------------------------------------------------------------------
(* Actions that end with `await batch.commit(); return true` *)

\* The pcs at which an action awaits batch.commit().
CommitPcs == {"dt_commit", "as_commit", "un_commit", "do_commit", "bd_commit",
              "bs_commit", "ba_commit"}

\* await batch.commit() throws into the catch block, or the action returns true.
CommitThenReturn(st) ==
    IF st.v.batchErr THEN Local(Throw(st)) ELSE Local(Return(st, Result(TRUE, 0)))

RECURSIVE SortedSeq(_)
\* The ids of a snapshot, in the order forEach visits them.
SortedSeq(S) ==
    IF S = {} THEN <<>>
    ELSE LET m == CHOOSE x \in S : \A y \in S : x <= y
         IN <<m>> \o SortedSeq(S \ {m})

\* batch.update(repRef, { assignedOrders: increment(n) })
\* A queued update of a representative that adds 1 whatever the amount asked for.
BatchRepIncrement_alwaysOne(repId, n, st, seq, p) ==
    BatchOp("update", REPRESENTATIVES_COLLECTION, repId, EmptyRec,
            [assignedOrders |-> 1], st, seq, p)

BatchRepIncrement(repId, n, st, seq, p) ==
    BatchOp("update", REPRESENTATIVES_COLLECTION, repId, EmptyRec,
            [assignedOrders |-> n], st, seq, p)

\* batch.delete(doc.ref) for every transaction of the snapshot, numbered from seq.
BatchDeleteAll(ids, st, seq, p) ==
    [k \in 1..Len(ids) |->
        BatchOp("delete", TRANSACTIONS_COLLECTION, ids[k], EmptyRec, EmptyRec, st,
                seq + k - 1, p)]

transactionsQuery(orderId) == <<where("orderId", "==", orderId)>>

----------------------------------------------------------------------------
(* assignRepresentativeToOrder, unassignRepresentativeFromOrder *)

\* One step of assignRepresentativeToOrder(orderId, rep).
AssignRepresentativeToOrderStep(p, st, fail) ==
    LET orderId == st.v.arg.orderId
        rep == st.v.arg.rep
    IN CASE st.pc = "as_get" ->
              LET orderSnap == DocGet(db, ORDERS_COLLECTION, orderId, fail)
                  old == orderSnap.data.representativeId
                  n == IF old # NULL THEN 1 ELSE 0
                  decOld == BatchRepIncrement(old, -1, st, 1, p)
                  updateOrder ==
                      BatchOp("update", ORDERS_COLLECTION, orderId,
                              [representativeId |-> rep, representativeName |-> rep,
                               status |-> "out_for_delivery"],
                              EmptyRec, st, n + 1, p)
                  incNew == BatchRepIncrement(rep, 1, st, n + 2, p)
              IN IF ~orderSnap.exists
                 THEN Effect(Throw(st), db, <<>>, nextId, fail, <<>>)
                 ELSE Effect([st EXCEPT !.pc = "as_commit"], db,
                             (IF old # NULL THEN <<decOld>> ELSE <<>>)
                                 \o <<updateOrder, incNew>>,
                             nextId, fail, <<CommitCalled(st)>>)
         [] st.pc = "as_commit" -> CommitThenReturn(st)

AssignRepresentativeToOrder(p) ==
    /\ proc[p].act = "assignRepresentativeToOrder"
    /\ proc[p].pc \in CommitPcs => BatchSettled(p)
    /\ \E fail \in FailChoice : Do(p, AssignRepresentativeToOrderStep(p, proc[p], fail))

CallAssignRepresentativeToOrder(p) ==
    /\ proc[p].act = "idle"
    /\ \E orderId \in DOMAIN db[ORDERS_COLLECTION],
          rep \in DOMAIN db[REPRESENTATIVES_COLLECTION] :
          Begin(p, "assignRepresentativeToOrder", "as_get",
                [arg |-> [orderId |-> orderId, rep |-> rep],
                 batchErr |-> FALSE])

\* One step of unassignRepresentativeFromOrder(orderId).
UnassignRepresentativeFromOrderStep(p, st, fail) ==
    LET orderId == st.v.arg
    IN CASE st.pc = "un_get" ->
              LET orderSnap == DocGet(db, ORDERS_COLLECTION, orderId, fail)
                  currentRepId == orderSnap.data.representativeId
                  updateOrder ==
                      BatchOp("update", ORDERS_COLLECTION, orderId,
                              [representativeId |-> NULL, representativeName |-> NULL,
                               status |-> "ready"],
                              EmptyRec, st, 2, p)
              IN IF ~orderSnap.exists
                 THEN Effect(Throw(st), db, <<>>, nextId, fail, <<>>)
                 ELSE IF currentRepId = NULL
                 THEN Effect(Return(st, Result(TRUE, 0)), db, <<>>, nextId, fail, <<>>)
                 ELSE Effect([st EXCEPT !.pc = "un_commit"], db,
                             <<BatchRepIncrement(currentRepId, -1, st, 1, p), updateOrder>>,
                             nextId, fail, <<CommitCalled(st)>>)
         [] st.pc = "un_commit" -> CommitThenReturn(st)

UnassignRepresentativeFromOrder(p) ==
    /\ proc[p].act = "unassignRepresentativeFromOrder"
    /\ proc[p].pc \in CommitPcs => BatchSettled(p)
    /\ \E fail \in FailChoice :
          Do(p, UnassignRepresentativeFromOrderStep(p, proc[p], fail))

CallUnassignRepresentativeFromOrder(p) ==
    /\ proc[p].act = "idle"
    /\ \E orderId \in DOMAIN db[ORDERS_COLLECTION] :
          Begin(p, "unassignRepresentativeFromOrder", "un_get",
                [arg |-> orderId,
                 batchErr |-> FALSE])

----------------------------------------------------------------------------
(* deleteOrder *)

\* One step of deleteOrder(orderId).
DeleteOrderStep(p, st, fail) ==
    LET orderId == st.v.arg
    IN CASE st.pc = "do_get" ->
              LET orderSnap == DocGet(db, ORDERS_COLLECTION, orderId, fail)
                  repId == orderSnap.data.representativeId
              IN IF ~orderSnap.exists
                 THEN Effect(Throw(st), db, <<>>, nextId, fail, <<>>)
                 ELSE Effect([st EXCEPT !.pc = "do_query",
                                        !.v.userId = orderSnap.data.userId,
                                        !.v.n = IF repId # NULL THEN 1 ELSE 0],
                             db,
                             IF repId # NULL THEN <<BatchRepIncrement(repId, -1, st, 1, p)>>
                             ELSE <<>>,
                             nextId, fail, <<>>)
         [] st.pc = "do_query" ->
              LET transactionsSnapshot ==
                      DbQuery(db, TRANSACTIONS_COLLECTION, transactionsQuery(orderId), fail)
                  ids == SortedSeq(DOMAIN transactionsSnapshot)
                  deleteOrder ==
                      BatchOp("delete", ORDERS_COLLECTION, orderId, EmptyRec, EmptyRec, st,
                              st.v.n + Len(ids) + 1, p)
              IN Effect([st EXCEPT !.pc = "do_commit"], db,
                        BatchDeleteAll(ids, st, st.v.n + 1, p) \o <<deleteOrder>>,
                        nextId, fail, <<CommitCalled(st)>>)
         [] st.pc = "do_commit" ->
              IF st.v.batchErr THEN Local(Throw(st))
              ELSE IF st.v.userId # NULL
              THEN Local(Call(st, "recalculateUserStats", "rc_orders",
                              RecalcFrame(st.v.userId), "do_ret"))
              ELSE Local(Return(st, Result(TRUE, 0)))
         [] st.pc = "do_ret" -> Local(Return(st, Result(TRUE, 0)))

DeleteOrder(p) ==
    /\ proc[p].act = "deleteOrder"
    /\ proc[p].pc \in CommitPcs => BatchSettled(p)
    /\ \E fail \in FailChoice : Do(p, DeleteOrderStep(p, proc[p], fail))

CallDeleteOrder(p) ==
    /\ proc[p].act = "idle"
    /\ \E orderId \in DOMAIN db[ORDERS_COLLECTION] :
          Begin(p, "deleteOrder", "do_get",
                [arg |-> orderId,
                 batchErr |-> FALSE,
                 userId |-> NULL,
                 n |-> 0])

----------------------------------------------------------------------------
(* bulkDeleteOrders, bulkUpdateOrdersStatus, bulkAssignRepresentative *)

\* The lists of order ids a bulk action of the orders screen can be given.
OrderIdLists(d) == {SortedSeq(S) : S \in SUBSET DOMAIN d[ORDERS_COLLECTION]}

\* usersToRecalculate.add(userId): a Set keeps insertion order.
SetAdd(list, x) ==
    IF \E i \in 1..Len(list) : list[i] = x THEN list ELSE Append(list, x)

\* for (const userId of usersToRecalculate) await recalculateUserStats(userId)
RecalculateNext(st) ==
    IF st.v.usersToRecalculate = <<>> THEN Return(st, Result(TRUE, 0))
    ELSE Call([st EXCEPT !.v.usersToRecalculate = Tail(@)],
              "recalculateUserStats", "rc_orders",
              RecalcFrame(Head(st.v.usersToRecalculate)), "bd_recalc")

\* The loop moves to the next order id, or calls batch.commit() after the last.
NextOrderId(st) ==
    IF st.v.i >= Len(st.v.arg)
    THEN [st |-> [st EXCEPT !.pc = "bd_commit"], evs |-> <<CommitCalled(st)>>]
    ELSE [st |-> [st EXCEPT !.pc = "bd_get", !.v.i = @ + 1], evs |-> <<>>]

\* One step of bulkDeleteOrders(orderIds).
BulkDeleteOrdersStep(p, st, fail) ==
    LET orderIds == st.v.arg
    IN CASE st.pc = "bd_get" ->
              IF Len(orderIds) = 0 THEN Local(Return(st, Result(TRUE, 0)))
              ELSE
              LET orderId == orderIds[st.v.i]
                  orderSnap == DocGet(db, ORDERS_COLLECTION, orderId, fail)
                  orderData == orderSnap.data
                  repId == orderData.representativeId
                  k == IF repId # NULL THEN 1 ELSE 0
                  deleteOrder ==
                      BatchOp("delete", ORDERS_COLLECTION, orderId, EmptyRec, EmptyRec, st,
                              st.v.n + k + 1, p)
                  skip == NextOrderId(st)
              IN IF orderSnap.exists
                 THEN Effect([st EXCEPT !.pc = "bd_query", !.v.n = @ + k + 1,
                                        !.v.usersToRecalculate =
                                            IF orderData.userId # NULL
                                            THEN SetAdd(@, orderData.userId) ELSE @],
                             db,
                             (IF repId # NULL
                              THEN <<BatchRepIncrement(repId, -1, st, st.v.n + 1, p)>>
                              ELSE <<>>) \o <<deleteOrder>>,
                             nextId, fail, <<>>)
                 ELSE Effect(skip.st, db, <<>>, nextId, fail, skip.evs)
         [] st.pc = "bd_query" ->
              LET transactionsSnapshot ==
                      DbQuery(db, TRANSACTIONS_COLLECTION,
                              transactionsQuery(orderIds[st.v.i]), fail)
                  ids == SortedSeq(DOMAIN transactionsSnapshot)
                  next == NextOrderId([st EXCEPT !.v.n = @ + Len(ids)])
              IN Effect(next.st, db, BatchDeleteAll(ids, st, st.v.n + 1, p), nextId, fail,
                        next.evs)
         [] st.pc = "bd_commit" ->
              IF st.v.batchErr THEN Local(Throw(st)) ELSE Local(RecalculateNext(st))
         [] st.pc = "bd_recalc" -> Local(RecalculateNext(st))

BulkDeleteOrders(p) ==
    /\ proc[p].act = "bulkDeleteOrders"
    /\ proc[p].pc \in CommitPcs => BatchSettled(p)
    /\ \E fail \in FailChoice : Do(p, BulkDeleteOrdersStep(p, proc[p], fail))

CallBulkDeleteOrders(p) ==
    /\ proc[p].act = "idle"
    /\ \E orderIds \in OrderIdLists(db) :
          Begin(p, "bulkDeleteOrders", "bd_get",
                [arg |-> orderIds,
                 batchErr |-> FALSE,
                 i |-> 1,
                 n |-> 0,
                 usersToRecalculate |-> <<>>])

\* One step of bulkUpdateOrdersStatus(orderIds, status).
BulkUpdateOrdersStatusStep(p, st, fail) ==
    LET orderIds == st.v.arg.orderIds
    IN CASE st.pc = "bs_start" ->
              IF Len(orderIds) = 0 THEN Local(Return(st, Result(TRUE, 0)))
              ELSE Effect([st EXCEPT !.pc = "bs_commit"], db,
                          [k \in 1..Len(orderIds) |->
                              BatchOp("update", ORDERS_COLLECTION, orderIds[k],
                                      [status |-> st.v.arg.status], EmptyRec, st, k, p)],
                          nextId, FALSE, <<CommitCalled(st)>>)
         [] st.pc = "bs_commit" -> CommitThenReturn(st)

BulkUpdateOrdersStatus(p) ==
    /\ proc[p].act = "bulkUpdateOrdersStatus"
    /\ proc[p].pc \in CommitPcs => BatchSettled(p)
    /\ \E fail \in FailChoice : Do(p, BulkUpdateOrdersStatusStep(p, proc[p], fail))

CallBulkUpdateOrdersStatus(p) ==
    /\ proc[p].act = "idle"
    /\ \E orderIds \in OrderIdLists(db), status \in EditedStatuses :
          Begin(p, "bulkUpdateOrdersStatus", "bs_start",
                [arg |-> [orderIds |-> orderIds, status |-> status],
                 batchErr |-> FALSE])

\* One step of bulkAssignRepresentative(orderIds, rep).
BulkAssignRepresentativeStep(p, st, fail) ==
    LET orderIds == st.v.arg.orderIds
        rep == st.v.arg.rep
    IN CASE st.pc = "ba_start" ->
              IF Len(orderIds) = 0 THEN Local(Return(st, Result(TRUE, 0)))
              ELSE Effect([st EXCEPT !.pc = "ba_commit"], db,
                          [k \in 1..Len(orderIds) |->
                              BatchOp("update", ORDERS_COLLECTION, orderIds[k],
                                      [representativeId |-> rep,
                                       representativeName |-> rep,
                                       status |-> "out_for_delivery"],
                                      EmptyRec, st, k, p)]
                            \o <<BatchRepIncrement(rep, Len(orderIds), st,
                                                   Len(orderIds) + 1, p)>>,
                          nextId, FALSE, <<CommitCalled(st)>>)
         [] st.pc = "ba_commit" -> CommitThenReturn(st)

BulkAssignRepresentative(p) ==
    /\ proc[p].act = "bulkAssignRepresentative"
    /\ proc[p].pc \in CommitPcs => BatchSettled(p)
    /\ \E fail \in FailChoice : Do(p, BulkAssignRepresentativeStep(p, proc[p], fail))

CallBulkAssignRepresentative(p) ==
    /\ proc[p].act = "idle"
    /\ \E orderIds \in OrderIdLists(db), rep \in DOMAIN db[REPRESENTATIVES_COLLECTION] :
          Begin(p, "bulkAssignRepresentative", "ba_start",
                [arg |-> [orderIds |-> orderIds, rep |-> rep],
                 batchErr |-> FALSE])

----------------------------------------------------------------------------
(* Creditors and external debts *)

creditorDebtsQuery(creditorId) == <<where("creditorId", "==", creditorId)>>

CreditorRecalcFrame(creditorId) == [arg |-> creditorId, totalDebt |-> 0]

\* One step of recalculateCreditorDebt(creditorId); its catch block logs and
\* returns.
RecalculateCreditorDebtStep(st, fail) ==
    LET creditorId == st.v.arg
    IN CASE st.pc = "rd_get" ->
              LET creditorSnap == DocGet(db, CREDITORS_COLLECTION, creditorId, fail)
              IN IF ~creditorSnap.exists
                 THEN Effect(Return(st, Result(TRUE, 0)), db, <<>>, nextId, fail, <<>>)
                 ELSE Effect([st EXCEPT !.pc = "rd_query"], db, <<>>, nextId, fail, <<>>)
         [] st.pc = "rd_query" ->
              LET querySnapshot == DbQuery(db, EXTERNAL_DEBTS_COLLECTION,
                                           creditorDebtsQuery(creditorId), fail)
              IN Effect([st EXCEPT !.pc = "rd_write",
                                   !.v.totalDebt = SumOver(querySnapshot,
                                                           DOMAIN querySnapshot, "amount")],
                        db, <<>>, nextId, fail, <<>>)
         [] st.pc = "rd_write" ->
              IF fail THEN Effect(Throw(st), db, <<>>, nextId, TRUE, <<>>)
              ELSE Effect(Return(st, Result(TRUE, 0)),
                          DocUpdatePlain(db, CREDITORS_COLLECTION, creditorId,
                                         [totalDebt |-> st.v.totalDebt]),
                          <<>>, nextId, FALSE, <<>>)

RecalculateCreditorDebt(p) ==
    /\ proc[p].act = "recalculateCreditorDebt"
    /\ \E fail \in FailChoice : Do(p, RecalculateCreditorDebtStep(proc[p], fail))

\* dbAdapter.collection(...).add: insert a row under a generated id.
CollectionAdd(d, col, id, data) == DocSet(d, col, id, data)

ExternalDebtFrame(debt) == [arg |-> debt, id |-> NULL]

\* One step of addExternalDebt(debt).
AddExternalDebtStep(p, st, fail) ==
    LET debt == st.v.arg
        id == nextId[EXTERNAL_DEBTS_COLLECTION]
    IN CASE st.pc = "ad_add" ->
              IF fail THEN Effect(Throw(st), db, <<>>, nextId, TRUE, <<>>)
              ELSE Effect(Call([st EXCEPT !.v.id = id], "recalculateCreditorDebt", "rd_get",
                               CreditorRecalcFrame(debt.creditorId), "ad_ret"),
                          CollectionAdd(db, EXTERNAL_DEBTS_COLLECTION, id, debt), <<>>,
                          [nextId EXCEPT ![EXTERNAL_DEBTS_COLLECTION] = @ + 1],
                          FALSE, <<>>)
         [] st.pc = "ad_ret" -> Local(Return(st, Result(TRUE, st.v.id)))

AddExternalDebt(p) ==
    /\ proc[p].act = "addExternalDebt"
    /\ \E fail \in FailChoice : Do(p, AddExternalDebtStep(p, proc[p], fail))

CallAddExternalDebt(p) ==
    /\ proc[p].act = "idle"
    /\ \E creditorId \in DOMAIN db[CREDITORS_COLLECTION], amount \in 1..MaxAmount :
          Begin(p, "addExternalDebt", "ad_add",
                ExternalDebtFrame([creditorId |-> creditorId, amount |-> amount]))

\* One step of addCreditor(creditorData, initialBalance).
AddCreditorStep(p, st, fail) ==
    LET initialBalance == st.v.arg
        id == nextId[CREDITORS_COLLECTION]
        st1 == [st EXCEPT !.v.id = id]
    IN CASE st.pc = "ac_add" ->
              IF fail THEN Effect(Throw(st), db, <<>>, nextId, TRUE, <<>>)
              ELSE Effect(IF initialBalance # 0
                          THEN Call(st1, "addExternalDebt", "ad_add",
                                    ExternalDebtFrame([creditorId |-> id,
                                                       amount |-> initialBalance]),
                                    "ac_fetch")
                          ELSE Call(st1, "recalculateCreditorDebt", "rd_get",
                                    CreditorRecalcFrame(id), "ac_fetch"),
                          CollectionAdd(db, CREDITORS_COLLECTION, id, [totalDebt |-> 0]),
                          <<>>, [nextId EXCEPT ![CREDITORS_COLLECTION] = @ + 1],
                          FALSE, <<>>)
         [] st.pc = "ac_fetch" ->
              \* return getCreditorById(newCreditor.id)
              LET docSnap == DocGet(db, CREDITORS_COLLECTION, st.v.id, fail)
              IN Effect(Return(st, Result(docSnap.exists, st.v.id)), db, <<>>, nextId,
                        fail, <<>>)

AddCreditor(p) ==
    /\ proc[p].act = "addCreditor"
    /\ \E fail \in FailChoice : Do(p, AddCreditorStep(p, proc[p], fail))

CallAddCreditor(p) ==
    /\ proc[p].act = "idle"
    /\ Cardinality(DOMAIN db[CREDITORS_COLLECTION]) < MaxCreditors
    /\ \E initialBalance \in 0..1 :
          Begin(p, "addCreditor", "ac_add", [arg |-> initialBalance, id |-> NULL])

\* One step of updateExternalDebt(debtId, data).
UpdateExternalDebtStep(p, st, fail) ==
    LET debtId == st.v.arg.debtId
    IN CASE st.pc = "ud_get" ->
              LET docSnap == DocGet(db, EXTERNAL_DEBTS_COLLECTION, debtId, fail)
              IN IF ~docSnap.exists
                 THEN Effect(Return(st, Result(FALSE, 0)), db, <<>>, nextId, fail, <<>>)
                 ELSE Effect([st EXCEPT !.pc = "ud_update",
                                        !.v.creditorId = docSnap.data.creditorId],
                             db, <<>>, nextId, fail, <<>>)
         [] st.pc = "ud_update" ->
              IF fail THEN Effect(Throw(st), db, <<>>, nextId, TRUE, <<>>)
              ELSE Effect(Call(st, "recalculateCreditorDebt", "rd_get",
                               CreditorRecalcFrame(st.v.creditorId), "ud_ret"),
                          DocUpdatePlain(db, EXTERNAL_DEBTS_COLLECTION, debtId,
                                         st.v.arg.data),
                          <<>>, nextId, FALSE, <<>>)
         [] st.pc = "ud_ret" -> Local(Return(st, Result(TRUE, 0)))

UpdateExternalDebt(p) ==
    /\ proc[p].act = "updateExternalDebt"
    /\ \E fail \in FailChoice : Do(p, UpdateExternalDebtStep(p, proc[p], fail))

\* The edits of a debt: a new amount, or another creditor.
DebtEdits(d) ==
    {[amount |-> a] : a \in Amounts}
        \cup {[creditorId |-> c] : c \in DOMAIN d[CREDITORS_COLLECTION]}

CallUpdateExternalDebt(p) ==
    /\ proc[p].act = "idle"
    /\ \E debtId \in DOMAIN db[EXTERNAL_DEBTS_COLLECTION], data \in DebtEdits(db) :
          Begin(p, "updateExternalDebt", "ud_get",
                [arg |-> [debtId |-> debtId, data |-> data],
                 creditorId |-> NULL])

\* One step of deleteExternalDebt(debtId).
DeleteExternalDebtStep(p, st, fail) ==
    LET debtId == st.v.arg
    IN CASE st.pc = "dd_get" ->
              LET docSnap == DocGet(db, EXTERNAL_DEBTS_COLLECTION, debtId, fail)
              IN IF ~docSnap.exists
                 THEN Effect(Return(st, Result(FALSE, 0)), db, <<>>, nextId, fail, <<>>)
                 ELSE Effect([st EXCEPT !.pc = "dd_delete",
                                        !.v.creditorId = docSnap.data.creditorId],
                             db, <<>>, nextId, fail, <<>>)
         [] st.pc = "dd_delete" ->
              IF fail THEN Effect(Throw(st), db, <<>>, nextId, TRUE, <<>>)
              ELSE Effect(Call(st, "recalculateCreditorDebt", "rd_get",
                               CreditorRecalcFrame(st.v.creditorId), "dd_ret"),
                          DocDelete(db, EXTERNAL_DEBTS_COLLECTION, debtId),
                          <<>>, nextId, FALSE, <<>>)
         [] st.pc = "dd_ret" -> Local(Return(st, Result(TRUE, 0)))

DeleteExternalDebt(p) ==
    /\ proc[p].act = "deleteExternalDebt"
    /\ \E fail \in FailChoice : Do(p, DeleteExternalDebtStep(p, proc[p], fail))

CallDeleteExternalDebt(p) ==
    /\ proc[p].act = "idle"
    /\ \E debtId \in DOMAIN db[EXTERNAL_DEBTS_COLLECTION] :
          Begin(p, "deleteExternalDebt", "dd_get",
                [arg |-> debtId,
                 creditorId |-> NULL])

----------------------------------------------------------------------------
(* getUserById *)

\* One step of getUserById(userId): recalculate the user, read the user
\* document, fall back to the temp order of that id. An exception in any of the
\* three ends in `return null`.
GetUserByIdStep(st, fail) ==
    LET userId == st.v.arg
    IN CASE st.pc = "gu_recalc" ->
              Local(Call(st, "recalculateUserStats", "rc_orders", RecalcFrame(userId),
                         "gu_user"))
         [] st.pc = "gu_user" ->
              LET docSnap == DocGet(db, USERS_COLLECTION, userId, fail)
              IN IF docSnap.exists
                 THEN Effect(Return(st, Result(TRUE, userId)), db, <<>>, nextId, fail, <<>>)
                 ELSE Effect([st EXCEPT !.pc = "gu_temp"], db, <<>>, nextId, fail, <<>>)
         [] st.pc = "gu_temp" ->
              LET tempOrderSnap == DocGet(db, TEMP_ORDERS_COLLECTION, userId, fail)
              IN Effect(Return(st, Result(tempOrderSnap.exists, userId)),
                        db, <<>>, nextId, fail, <<>>)

GetUserById(p) ==
    /\ proc[p].act = "getUserById"
    /\ \E fail \in FailChoice : Do(p, GetUserByIdStep(proc[p], fail))

----------------------------------------------------------------------------
(* Temp orders: addTempOrder, updateTempOrder, deleteTempOrder, addTempOrderPayment *)

\* The order addTempOrder and updateTempOrder pass to addOrder for a temp order
\* that has an assigned user: sellingPriceLYD is the total, downPaymentLYD the
\* part of it already paid.
MainOrderOf(tempOrder) ==
    [arg |-> [userId |-> tempOrder.assignedUserId,
              sellingPriceLYD |-> tempOrder.totalAmount,
              downPaymentLYD |-> tempOrder.totalAmount - tempOrder.remainingAmount,
              status |-> "pending"],
     userData |-> DefaultRow(USERS_COLLECTION), orderId |-> NULL]

\* One step of addTempOrder(order). An order with an assigned user (and name) gets
\* a main order first; the arguments of addOrder are evaluated in order:
\* getUserById, then getAppSettings.
AddTempOrderStep(p, st, fail) ==
    LET order == st.v.arg
        tempOrderRef == nextId[TEMP_ORDERS_COLLECTION]
        ids == [nextId EXCEPT ![TEMP_ORDERS_COLLECTION] = @ + 1]
    IN CASE st.pc = "ta_start" ->
              IF order.assignedUserId # NULL
              THEN Local(Call(st, "getUserById", "gu_recalc",
                              [arg |-> order.assignedUserId], "ta_settings"))
              ELSE IF fail THEN Effect(Throw(st), db, <<>>, nextId, TRUE, <<>>)
              ELSE Effect(Return(st, Result(TRUE, tempOrderRef)),
                          DocSet(db, TEMP_ORDERS_COLLECTION, tempOrderRef, order),
                          <<>>, ids, FALSE, <<>>)
         [] st.pc = "ta_settings" ->
              Local(Call(st, "getAppSettings", "gs_get", SettingsFrame, "ta_addOrder"))
         [] st.pc = "ta_addOrder" ->
              Local(Call(st, "addOrder", "ao_user", MainOrderOf(order), "ta_set"))
         [] st.pc = "ta_set" ->
              LET mainOrder == st.v.res
              IN IF ~mainOrder.ok THEN Local(Throw(st))
                 ELSE IF fail THEN Effect(Throw(st), db, <<>>, nextId, TRUE, <<>>)
                 ELSE Effect(Return(st, Result(TRUE, tempOrderRef)),
                             DocSet(db, TEMP_ORDERS_COLLECTION, tempOrderRef,
                                    Put(order, "parentInvoiceId", mainOrder.val)),
                             <<>>, ids, FALSE, <<>>)

AddTempOrder(p) ==
    /\ proc[p].act = "addTempOrder"
    /\ \E fail \in FailChoice : Do(p, AddTempOrderStep(p, proc[p], fail))

\* The UI saves a new temp order with one sub-order, with or without a user.
CallAddTempOrder(p) ==
    /\ proc[p].act = "idle"
    /\ \E userId \in {NULL} \cup UserIds, r \in 1..MaxAmount :
          Begin(p, "addTempOrder", "ta_start",
                [arg |-> [assignedUserId |-> userId, status |-> "pending",
                          totalAmount |-> MaxAmount, remainingAmount |-> r,
                          subOrderId |-> 1, subOrderRemaining |-> r]])

\* One step of updateTempOrder(orderId, data).
UpdateTempOrderStep(p, st, fail) ==
    LET orderId == st.v.arg
        data == st.v.data
        oldData == st.v.oldData
    IN CASE st.pc = "tu_get" ->
              LET oldDocSnap == DocGet(db, TEMP_ORDERS_COLLECTION, orderId, fail)
                  old == oldDocSnap.data.assignedUserId
                  new == IF "assignedUserId" \in DOMAIN data
                         THEN data.assignedUserId ELSE NULL
                  withOld == IF old # NULL THEN <<old>> ELSE <<>>
              IN IF ~oldDocSnap.exists
                 THEN Effect(Throw(st), db, <<>>, nextId, fail, <<>>)
                 ELSE Effect([st EXCEPT !.pc = "tu_update",
                                        !.v.oldData = oldDocSnap.data,
                                        !.v.newUserId = new,
                                        !.v.usersToUpdate =
                                            IF new # NULL THEN SetAdd(withOld, new)
                                            ELSE withOld],
                             db, <<>>, nextId, fail, <<>>)
         [] st.pc = "tu_update" ->
              \* await updateDoc(orderRef, data)
              IF fail THEN Effect(Throw(st), db, <<>>, nextId, TRUE, <<>>)
              ELSE Effect(IF st.v.newUserId # NULL /\ oldData.assignedUserId = NULL
                          THEN Call(st, "getUserById", "gu_recalc",
                                    [arg |-> st.v.newUserId], "tu_settings")
                          ELSE [st EXCEPT !.pc = "tu_recalc"],
                          DocUpdatePlain(db, TEMP_ORDERS_COLLECTION, orderId, data),
                          <<>>, nextId, FALSE, <<>>)
         [] st.pc = "tu_settings" ->
              Local(Call(st, "getAppSettings", "gs_get", SettingsFrame, "tu_addOrder"))
         [] st.pc = "tu_addOrder" ->
              Local(Call(st, "addOrder", "ao_user", MainOrderOf(Merge(oldData, data)),
                         "tu_parent"))
         [] st.pc = "tu_parent" ->
              \* if (mainOrder) await updateDoc(orderRef, { parentInvoiceId })
              LET mainOrder == st.v.res
              IN IF ~mainOrder.ok THEN Local([st EXCEPT !.pc = "tu_recalc"])
                 ELSE IF fail THEN Effect(Throw(st), db, <<>>, nextId, TRUE, <<>>)
                 ELSE Effect([st EXCEPT !.pc = "tu_recalc"],
                             DocUpdatePlain(db, TEMP_ORDERS_COLLECTION, orderId,
                                            [parentInvoiceId |-> mainOrder.val]),
                             <<>>, nextId, FALSE, <<>>)
         [] st.pc = "tu_recalc" ->
              \* for (const userId of usersToUpdate) await recalculateUserStats(userId)
              IF st.v.usersToUpdate = <<>> THEN Local(Return(st, Result(TRUE, 0)))
              ELSE Local(Call([st EXCEPT !.v.usersToUpdate = Tail(@)],
                              "recalculateUserStats", "rc_orders",
                              RecalcFrame(Head(st.v.usersToUpdate)), "tu_recalc"))

UpdateTempOrder(p) ==
    /\ proc[p].act = "updateTempOrder"
    /\ \E fail \in FailChoice : Do(p, UpdateTempOrderStep(p, proc[p], fail))

\* The edits of the temp orders screen: assign a user, change the status.
TempOrderEdits ==
    {[assignedUserId |-> u] : u \in UserIds} \cup {[status |-> "cancelled"]}

CallUpdateTempOrder(p) ==
    /\ proc[p].act = "idle"
    /\ \E orderId \in DOMAIN db[TEMP_ORDERS_COLLECTION], data \in TempOrderEdits :
          Begin(p, "updateTempOrder", "tu_get",
                [arg |-> orderId, data |-> data,
                 oldData |-> DefaultRow(TEMP_ORDERS_COLLECTION),
                 newUserId |-> NULL, usersToUpdate |-> <<>>])

\* One step of deleteTempOrder(orderId).
DeleteTempOrderStep(p, st, fail) ==
    LET orderId == st.v.arg
        data == st.v.data
        recalcOrReturn(s) ==
            IF s.v.userIdToRecalculate # NULL
            THEN Call(s, "recalculateUserStats", "rc_orders",
                      RecalcFrame(s.v.userIdToRecalculate), "td_ret")
            ELSE Return(s, Result(TRUE, 0))
    IN CASE st.pc = "td_get" ->
              LET docSnap == DocGet(db, TEMP_ORDERS_COLLECTION, orderId, fail)
              IN IF ~docSnap.exists
                 THEN Effect(Throw(st), db, <<>>, nextId, fail, <<>>)
                 ELSE Effect([st EXCEPT !.pc = IF docSnap.data.parentInvoiceId # NULL
                                               THEN "td_main" ELSE "td_delete",
                                        !.v.data = docSnap.data,
                                        !.v.userIdToRecalculate =
                                            docSnap.data.assignedUserId],
                             db, <<>>, nextId, fail, <<>>)
         [] st.pc = "td_main" ->
              \* getOrderById(parentInvoiceId), then deleteOrder(parentInvoiceId)
              LET mainOrderDoc == DocGet(db, ORDERS_COLLECTION, data.parentInvoiceId, fail)
                  st1 == IF mainOrderDoc.exists
                         THEN [st EXCEPT !.v.userIdToRecalculate = mainOrderDoc.data.userId]
                         ELSE st
              IN Effect(Call(st1, "deleteOrder", "do_get",
                             [arg |-> data.parentInvoiceId, batchErr |-> FALSE,
                              userId |-> NULL, n |-> 0], "td_delete"),
                        db, <<>>, nextId, fail, <<>>)
         [] st.pc = "td_delete" ->
              \* await deleteDoc(orderRef)
              IF fail THEN Effect(Throw(st), db, <<>>, nextId, TRUE, <<>>)
              ELSE Effect(recalcOrReturn(st),
                          DocDelete(db, TEMP_ORDERS_COLLECTION, orderId),
                          <<>>, nextId, FALSE, <<>>)
         [] st.pc = "td_ret" -> Local(Return(st, Result(TRUE, 0)))

DeleteTempOrder(p) ==
    /\ proc[p].act = "deleteTempOrder"
    /\ \E fail \in FailChoice : Do(p, DeleteTempOrderStep(p, proc[p], fail))

CallDeleteTempOrder(p) ==
    /\ proc[p].act = "idle"
    /\ \E orderId \in DOMAIN db[TEMP_ORDERS_COLLECTION] :
          Begin(p, "deleteTempOrder", "td_get",
                [arg |-> orderId, data |-> DefaultRow(TEMP_ORDERS_COLLECTION),
                 userIdToRecalculate |-> NULL])

\* Math.max(0, x)
Max0(x) == IF x < 0 THEN 0 ELSE x

\* One step of addTempOrderPayment(tempOrderId, subOrderId, amount). The two
\* updates of the transaction callback are not awaited.
AddTempOrderPaymentStep(p, st, fail) ==
    LET tempOrderId == st.v.arg
        amount == st.v.amount
    IN CASE st.pc = "tp_get" ->
              LET tempOrderDoc == DocGet(db, TEMP_ORDERS_COLLECTION, tempOrderId, fail)
                  tempOrderData == tempOrderDoc.data
                  updateTemp ==
                      Request("update", TEMP_ORDERS_COLLECTION, tempOrderId,
                              [subOrderRemaining |->
                                   Max0(tempOrderData.subOrderRemaining - amount),
                               remainingAmount |->
                                   Max0(tempOrderData.remainingAmount - amount)],
                              EmptyRec, "tx", st.aid, 1, p)
                  updateMain ==
                      Request("update", ORDERS_COLLECTION, tempOrderData.parentInvoiceId,
                              EmptyRec, [remainingAmount |-> 0 - amount],
                              "tx", st.aid, 2, p)
              IN IF ~tempOrderDoc.exists \/ tempOrderData.subOrderId # st.v.subOrderId
                 THEN Effect(Throw(st), db, <<>>, nextId, fail, <<>>)
                 ELSE Effect([st EXCEPT !.pc = "tp_final"], db,
                             IF tempOrderData.parentInvoiceId # NULL
                             THEN <<updateTemp, updateMain>> ELSE <<updateTemp>>,
                             nextId, fail, <<Event("resolve", st.aid, 0, "tx")>>)
         [] st.pc = "tp_final" ->
              LET finalTempOrderSnap == DocGet(db, TEMP_ORDERS_COLLECTION, tempOrderId, fail)
              IN IF ~finalTempOrderSnap.exists
                 THEN Effect(Throw(st), db, <<>>, nextId, fail, <<>>)
                 ELSE Effect([st EXCEPT !.pc = "tp_add",
                                        !.v.final = finalTempOrderSnap.data],
                             db, <<>>, nextId, fail, <<>>)
         [] st.pc = "tp_add" ->
              LET final == st.v.final
                  txId == nextId[TRANSACTIONS_COLLECTION]
                  row == [orderId |-> IF final.parentInvoiceId # NULL
                                      THEN final.parentInvoiceId ELSE tempOrderId,
                          customerId |-> IF final.assignedUserId # NULL
                                         THEN final.assignedUserId
                                         ELSE 0 - st.v.subOrderId,
                          type |-> "payment", amount |-> amount,
                          description |-> "temp order payment"]
              IN IF fail THEN Effect(Throw(st), db, <<>>, nextId, TRUE, <<>>)
                 ELSE Effect(IF final.assignedUserId # NULL
                             THEN Call(st, "recalculateUserStats", "rc_orders",
                                       RecalcFrame(final.assignedUserId), "tp_ret")
                             ELSE Return(st, Result(TRUE, 0)),
                             CollectionAdd(db, TRANSACTIONS_COLLECTION, txId, row),
                             <<>>, [nextId EXCEPT ![TRANSACTIONS_COLLECTION] = @ + 1],
                             FALSE, <<>>)
         [] st.pc = "tp_ret" -> Local(Return(st, Result(TRUE, 0)))

AddTempOrderPayment(p) ==
    /\ proc[p].act = "addTempOrderPayment"
    /\ \E fail \in FailChoice : Do(p, AddTempOrderPaymentStep(p, proc[p], fail))

CallAddTempOrderPayment(p) ==
    /\ proc[p].act = "idle"
    /\ \E tempOrderId \in DOMAIN db[TEMP_ORDERS_COLLECTION], amount \in 1..MaxAmount :
          Begin(p, "addTempOrderPayment", "tp_get",
                [arg |-> tempOrderId, subOrderId |-> 1, amount |-> amount,
                 final |-> DefaultRow(TEMP_ORDERS_COLLECTION)])

----------------------------------------------------------------------------
(* recordRepresentativePayment *)

\* A delivery date that is never written.
Now_unset == NULL

\* new Date().toISOString(): some timestamp, which is not null.
Now == 1

\* One step of recordRepresentativePayment(orderId, collectedAmount): one awaited
\* update of the order, with no check that the order exists.
RecordRepresentativePaymentStep(st, fail) ==
    IF fail THEN Effect(Throw(st), db, <<>>, nextId, TRUE, <<>>)
    ELSE Effect(Return(st, Result(TRUE, 0)),
                DocUpdatePlain(db, ORDERS_COLLECTION, st.v.arg.orderId,
                               [status |-> "delivered", deliveryDate |-> Now,
                                collectedAmount |-> st.v.arg.collectedAmount]),
                <<>>, nextId, FALSE, <<>>)

RecordRepresentativePayment(p) ==
    /\ proc[p].act = "recordRepresentativePayment"
    /\ \E fail \in FailChoice : Do(p, RecordRepresentativePaymentStep(proc[p], fail))

\* The representative records what was collected for one of the orders.
CallRecordRepresentativePayment(p) ==
    /\ proc[p].act = "idle"
    /\ \E orderId \in DOMAIN db[ORDERS_COLLECTION], collectedAmount \in 1..MaxAmount :
          Begin(p, "recordRepresentativePayment", "rp_update",
                [arg |-> [orderId |-> orderId, collectedAmount |-> collectedAmount]])

----------------------------------------------------------------------------
(* getTempOrders *)

\* where("status", "!=", "cancelled")
tempOrdersQuery == <<where("status", "!=", "cancelled")>>

\* getTempOrders(): one query; the rows are returned (here: their ids; the sort
\* by createdAt does not change which rows they are).
GetTempOrdersStep(st, fail) ==
    LET querySnapshot == DbQuery(db, TEMP_ORDERS_COLLECTION, tempOrdersQuery, fail)
    IN Effect(Return(st, Result(TRUE, DOMAIN querySnapshot)), db, <<>>, nextId, fail, <<>>)

GetTempOrders(p) ==
    /\ proc[p].act = "getTempOrders"
    /\ \E fail \in FailChoice : Do(p, GetTempOrdersStep(proc[p], fail))

\* The temp orders screen loads its list.
CallGetTempOrders(p) ==
    /\ proc[p].act = "idle"
    /\ Begin(p, "getTempOrders", "gt_query", [arg |-> 0])

----------------------------------------------------------------------------
(* Store states for the recalculation: any rows, as a partially failed action or *)
(* a manual edit may leave them.                                                 *)

AnyOrderRows ==
    {Merge(DefaultRow(ORDERS_COLLECTION),
           [userId |-> u, status |-> s, remainingAmount |-> r]) :
        u \in UserIds, s \in {"pending", "cancelled"}, r \in Amounts}

AnyTempOrderRows ==
    {Merge(DefaultRow(TEMP_ORDERS_COLLECTION),
           [assignedUserId |-> u, parentInvoiceId |-> o, status |-> s,
            totalAmount |-> 1, remainingAmount |-> 1]) :
        u \in {NULL, 1}, o \in {NULL, 1}, s \in {"pending", "cancelled"}}

EmptyDb == [c \in Collections |-> EmptyRec]

\* A debt no recalculation of the bounded states produces.
StaleDebt == 4 * MaxAmount + 1

InitAnyStore ==
    /\ \E os \in [{1, 2} -> AnyOrderRows], ts \in [{1, 2} -> AnyTempOrderRows] :
          db = [EmptyDb EXCEPT
                  ![USERS_COLLECTION] =
                      [u \in UserIds |-> [debt |-> StaleDebt, orderCount |-> StaleDebt,
                                          orderCounter |-> 0]],
                  ![ORDERS_COLLECTION] = os,
                  ![TEMP_ORDERS_COLLECTION] = ts]
    /\ inflight = <<>>
    /\ proc = [p \in OneCaller |-> Idle]
    /\ nextId = [c \in Collections |-> 3]
    /\ faults = 0
    /\ log = <<>>
    /\ budget = MaxRecalcs

NextRecalc ==
    \E p \in Procs : CallRecalculateUserStats(p) \/ RecalculateUserStats(p)

SpecRecalc == InitAnyStore /\ [][NextRecalc]_vars

----------------------------------------------------------------------------
(* What the aggregates should be *)

\* The sum of remainingAmount over the user's orders that are not cancelled plus
\* the direct, unconverted, non-cancelled temp orders of the user.
ExpectedDebt(d, userId) ==
    LET os == {o \in DOMAIN d[ORDERS_COLLECTION] :
                  /\ d[ORDERS_COLLECTION][o].userId = userId
                  /\ d[ORDERS_COLLECTION][o].status # "cancelled"}
        ts == {t \in DOMAIN d[TEMP_ORDERS_COLLECTION] :
                  /\ d[TEMP_ORDERS_COLLECTION][t].assignedUserId = userId
                  /\ d[TEMP_ORDERS_COLLECTION][t].parentInvoiceId = NULL
                  /\ d[TEMP_ORDERS_COLLECTION][t].status # "cancelled"}
    IN SumOver(d[ORDERS_COLLECTION], os, "remainingAmount")
         + SumOver(d[TEMP_ORDERS_COLLECTION], ts, "remainingAmount")

ExpectedOrderCount(d, userId) ==
    Cardinality({o \in DOMAIN d[ORDERS_COLLECTION] :
                    /\ d[ORDERS_COLLECTION][o].userId = userId
                    /\ d[ORDERS_COLLECTION][o].status # "cancelled"})

DebtInvariant(d, userId) ==
    userId \in DOMAIN d[USERS_COLLECTION] =>
        d[USERS_COLLECTION][userId].debt = ExpectedDebt(d, userId)

\* recalculateUserStats(userId) has just returned to the UI.
RecalcReturned(p, userId) ==
    /\ proc[p].act = "idle"
    /\ proc[p].last.act = "recalculateUserStats"
    /\ proc[p].last.arg = userId
    /\ proc[p].last.ok

\* C1: Debt invariant. From any store state, once recalculateUserStats(U) has
\* returned with no writer running beside it, U.debt is the sum of remainingAmount
\* over U's non-cancelled orders plus U's direct, unconverted, non-cancelled temp
\* orders.
C1_DebtAfterRecalc ==
    \A p \in Procs : \A userId \in UserIds :
        RecalcReturned(p, userId) => DebtInvariant(db, userId)

----------------------------------------------------------------------------
(* Order creation *)

SettingsRow(exchangeRate, pricePerKiloLYD, pricePerKiloUSD) ==
    [exchangeRate |-> exchangeRate, pricePerKiloLYD |-> pricePerKiloLYD,
     pricePerKiloUSD |-> pricePerKiloUSD]

UserRow(debt, orderCount, orderCounter) ==
    [debt |-> debt, orderCount |-> orderCount, orderCounter |-> orderCounter]

\* Two users without orders; the settings document may not exist yet.
InitAddOrder ==
    /\ \E settings \in {EmptyRec, [x \in {MainSettingsId} |-> SettingsRow(2, NULL, NULL)]} :
          db = [EmptyDb EXCEPT
                  ![USERS_COLLECTION] = [u \in UserIds |-> UserRow(0, 0, 0)],
                  ![SETTINGS_COLLECTION] = settings]
    /\ inflight = <<>>
    /\ proc = [p \in OneCaller |-> Idle]
    /\ nextId = [c \in Collections |-> 1]
    /\ faults = 0
    /\ log = <<>>
    /\ budget = MaxAddOrders

NextAddOrder ==
    \/ \E p \in Procs :
          \/ CallAddOrder(p)
          \/ AddOrder(p)
          \/ GetAppSettings(p)
          \/ RecalculateUserStats(p)
    \/ Serve

SpecAddOrder == InitAddOrder /\ [][NextAddOrder]_vars

\* addOrder has returned to the UI for a user who existed when it was called.
AddOrderReturned(p) ==
    /\ proc[p].act = "idle"
    /\ proc[p].last.act = "addOrder"
    /\ proc[p].last.arg.userId \in DOMAIN proc[p].pre[USERS_COLLECTION]

\* The transactions of the given type that reference the order.
TransactionsOf(d, orderId, type) ==
    {t \in DOMAIN d[TRANSACTIONS_COLLECTION] :
        /\ d[TRANSACTIONS_COLLECTION][t].orderId = orderId
        /\ d[TRANSACTIONS_COLLECTION][t].type = type}

AddOrderPostcondition(p) ==
    LET orderData == proc[p].last.arg
        pre == proc[p].pre
        newOrders == DOMAIN db[ORDERS_COLLECTION] \ DOMAIN pre[ORDERS_COLLECTION]
    IN /\ Cardinality(newOrders) = 1
       /\ Cardinality(DOMAIN db[TRANSACTIONS_COLLECTION]
                        \ DOMAIN pre[TRANSACTIONS_COLLECTION])
             = IF orderData.downPaymentLYD > 0 THEN 2 ELSE 1
       /\ \A o \in newOrders :
             /\ db[ORDERS_COLLECTION][o].remainingAmount
                   = orderData.sellingPriceLYD - orderData.downPaymentLYD
             /\ Cardinality(TransactionsOf(db, o, "order")) = 1
             /\ \A t \in TransactionsOf(db, o, "order") :
                   db[TRANSACTIONS_COLLECTION][t].amount = orderData.sellingPriceLYD
             /\ Cardinality(TransactionsOf(db, o, "payment"))
                   = IF orderData.downPaymentLYD > 0 THEN 1 ELSE 0
             /\ \A t \in TransactionsOf(db, o, "payment") :
                   db[TRANSACTIONS_COLLECTION][t].amount = orderData.downPaymentLYD
       /\ db[USERS_COLLECTION][orderData.userId].orderCounter
             = pre[USERS_COLLECTION][orderData.userId].orderCounter + 1

\* C6: Order creation postcondition. addOrder for an existing user with selling
\* price S and down payment D, with no store failure and no other action, leaves
\* (once its writes have been served) exactly one new order with remainingAmount
\* S - D, one 'order' transaction of amount S for it, one 'payment' transaction of
\* amount D when D > 0 and none when D = 0, and the user's orderCounter raised by 1.
C6_AddOrderPostcondition ==
    \A p \in Procs :
        (AddOrderReturned(p) /\ inflight = <<>>) => AddOrderPostcondition(p)

\* addOrder returned an order with a down payment and all its writes are served.
C6_Witness ==
    \E p \in Procs :
        /\ AddOrderReturned(p) /\ inflight = <<>>
        /\ proc[p].last.ok
        /\ proc[p].last.arg.downPaymentLYD > 0
        /\ proc[p].last.arg.sellingPriceLYD > proc[p].last.arg.downPaymentLYD
        /\ Cardinality(DOMAIN db[TRANSACTIONS_COLLECTION]) = 2

\* C7: addOrder result. When the owning user exists and no store call fails,
\* addOrder returns the created order, never null, and at the moment it returns
\* the order row is in the store and the user's debt and orderCount include it.
C7_AddOrderResult ==
    \A p \in Procs :
        AddOrderReturned(p) =>
            /\ proc[p].last.ok
            /\ proc[p].last.val \in DOMAIN db[ORDERS_COLLECTION]
            /\ DebtInvariant(db, proc[p].last.arg.userId)
            /\ db[USERS_COLLECTION][proc[p].last.arg.userId].orderCount
                  = ExpectedOrderCount(db, proc[p].last.arg.userId)

\* The apply events of the log for requests issued through a transaction object.
TxApplies == {i \in 1..Len(log) : log[i].e = "apply" /\ log[i].tag = "tx"}

\* C8: Pseudo-transaction ordering. The writes a runTransaction callback issues
\* are applied to the store in the order they were issued, and every one of them
\* has been applied by the time runTransaction resolves.
C8_TransactionOrdering ==
    /\ \A i, j \in TxApplies :
          (i < j /\ log[i].aid = log[j].aid) => log[i].seq < log[j].seq
    /\ \A i \in 1..Len(log) :
          log[i].e = "resolve" =>
              \A k \in 1..Len(inflight) :
                  ~(inflight[k].tag = "tx" /\ inflight[k].aid = log[i].aid)


----------------------------------------------------------------------------
(* The ledger of one order: weight and shipping adjustments, payments *)

\* The store as addOrder({userId: 1, sellingPriceLYD: S, downPaymentLYD: D}) leaves
\* it once its writes are served (C6); the order may carry no exchange rate of its
\* own (order.exchangeRate || settings.exchangeRate).
LedgerDb(S, D, exchangeRate) ==
    [EmptyDb EXCEPT
       ![USERS_COLLECTION] = [u \in {1} |-> UserRow(S - D, 1, 1)],
       ![SETTINGS_COLLECTION] = [x \in {MainSettingsId} |-> SettingsRow(2, NULL, NULL)],
       ![ORDERS_COLLECTION] =
           [o \in {1} |-> Merge(DefaultRow(ORDERS_COLLECTION),
                                [userId |-> 1, sellingPriceLYD |-> S, downPaymentLYD |-> D,
                                 remainingAmount |-> S - D, exchangeRate |-> exchangeRate,
                                 invoiceNumber |-> 1])],
       ![TRANSACTIONS_COLLECTION] =
           [t \in (IF D > 0 THEN {1, 2} ELSE {1}) |->
               IF t = 1
               THEN [orderId |-> 1, customerId |-> 1, type |-> "order", amount |-> S,
                     description |-> "new order"]
               ELSE [orderId |-> 1, customerId |-> 1, type |-> "payment", amount |-> D,
                     description |-> "down payment"]]]

InitLedgerWith(maxFaults) ==
    /\ \E D \in 0..1, exchangeRate \in {0, 2} : db = LedgerDb(MaxAmount, D, exchangeRate)
    /\ inflight = <<>>
    /\ proc = [p \in OneCaller |-> Idle]
    /\ nextId = [c \in Collections |-> 3]
    /\ faults = maxFaults
    /\ log = <<>>
    /\ budget = MaxLedgerActions

InitLedger == InitLedgerWith(0)

NextLedger ==
    \/ \E p \in Procs :
          \/ CallSetCustomerWeightDetails(p)
          \/ SetCustomerWeightDetails(p)
          \/ CallAddCustomerShippingCost(p)
          \/ AddCustomerShippingCost(p)
          \/ CallAddTransaction(p)
          \/ AddTransaction(p)
          \/ CallUpdateTransaction(p)
          \/ UpdateTransaction(p)
          \/ CallDeleteTransaction(p)
          \/ DeleteTransaction(p)
          \/ GetAppSettings(p)
          \/ RecalculateUserStats(p)
    \/ Serve

SpecLedger == InitLedger /\ [][NextLedger]_vars

\* No action is running and every request has been served.
Quiescent ==
    /\ inflight = <<>>
    /\ \A p \in Procs : proc[p].act = "idle"

\* The payment entries of the order other than the down-payment entry.
LaterPayments(d, orderId) ==
    {t \in TransactionsOf(d, orderId, "payment") :
        d[TRANSACTIONS_COLLECTION][t].description # "down payment"}

RemainingConserved(d, orderId) ==
    LET order == d[ORDERS_COLLECTION][orderId]
    IN order.remainingAmount
         = order.sellingPriceLYD - order.downPaymentLYD
             - SumOver(d[TRANSACTIONS_COLLECTION], LaterPayments(d, orderId), "amount")

\* C2: Remaining-amount conservation. After any sequence of weight and shipping
\* adjustments and of payments added, edited and deleted, run one after another
\* with no store failure, every order has remainingAmount = sellingPriceLYD -
\* downPaymentLYD - the sum of its payment entries other than the down payment.
C2_RemainingConserved ==
    Quiescent => \A orderId \in DOMAIN db[ORDERS_COLLECTION] :
                    RemainingConserved(db, orderId)


----------------------------------------------------------------------------
(* The ledger with a store that may fail a request *)

InitLedgerFaults == InitLedgerWith(MaxFaults)

SpecLedgerFaults == InitLedgerFaults /\ [][NextLedger]_vars

\* The log entries of the writes issued through a transaction object.
TxEvents(e) ==
    {i \in 1..Len(log) : log[i].e = e /\ log[i].tag = "tx"}

\* C9: No rollback, abort on error. When a store operation issued by a
\* pseudo-transaction callback fails, no operation the same callback issued after
\* it is applied to the store.
C9_AbortOnError ==
    \A i \in TxEvents("fail") : \A j \in TxEvents("apply") :
        log[j].aid = log[i].aid => log[j].seq < log[i].seq


----------------------------------------------------------------------------
(* Representatives and the orders assigned to them *)

\* One customer with two orders; order 1 is out for delivery with representative
\* 1. Debt, order count and assignedOrders are correct.
RepsDb ==
    [EmptyDb EXCEPT
       ![USERS_COLLECTION] = [u \in {1} |-> UserRow(2, 2, 2)],
       ![REPRESENTATIVES_COLLECTION] =
           [r \in {1, 2} |-> [assignedOrders |-> IF r = 1 THEN 1 ELSE 0]],
       ![ORDERS_COLLECTION] =
           [o \in {1, 2} |->
               Merge(DefaultRow(ORDERS_COLLECTION),
                     [userId |-> 1, sellingPriceLYD |-> 1, remainingAmount |-> 1,
                      exchangeRate |-> 1, invoiceNumber |-> o,
                      representativeId |-> IF o = 1 THEN 1 ELSE NULL,
                      representativeName |-> IF o = 1 THEN 1 ELSE NULL,
                      status |-> IF o = 1 THEN "out_for_delivery" ELSE "pending"])],
       ![TRANSACTIONS_COLLECTION] =
           [t \in {1, 2} |-> [orderId |-> t, customerId |-> 1, type |-> "order",
                              amount |-> 1, description |-> "new order"]]]

InitRepsWith(maxActions) ==
    /\ db = RepsDb
    /\ inflight = <<>>
    /\ proc = [p \in OneCaller |-> Idle]
    /\ nextId = [c \in Collections |-> 3]
    /\ faults = 0
    /\ log = <<>>
    /\ budget = maxActions

InitReps == InitRepsWith(MaxRepActions)

NextReps ==
    \/ \E p \in Procs :
          \/ CallAssignRepresentativeToOrder(p)
          \/ AssignRepresentativeToOrder(p)
          \/ CallUnassignRepresentativeFromOrder(p)
          \/ UnassignRepresentativeFromOrder(p)
          \/ CallBulkAssignRepresentative(p)
          \/ BulkAssignRepresentative(p)
          \/ CallDeleteOrder(p)
          \/ DeleteOrder(p)
          \/ CallBulkDeleteOrders(p)
          \/ BulkDeleteOrders(p)
          \/ RecalculateUserStats(p)
    \/ Serve

SpecReps == InitReps /\ [][NextReps]_vars

\* The number of orders whose representativeId is the representative.
AssignedTo(d, repId) ==
    Cardinality({o \in DOMAIN d[ORDERS_COLLECTION] :
                    d[ORDERS_COLLECTION][o].representativeId = repId})

\* C3: Representative count conservation. After any sequence of assign, unassign,
\* bulk assign, delete order and bulk delete calls, each run to completion from a
\* state with correct counts, every representative's assignedOrders is the number
\* of orders whose representativeId is that representative.
C3_AssignedOrdersConserved ==
    Quiescent => \A repId \in DOMAIN db[REPRESENTATIVES_COLLECTION] :
                    db[REPRESENTATIVES_COLLECTION][repId].assignedOrders
                        = AssignedTo(db, repId)

\* The log entries of the operations queued on a write batch.
BatchEvents(e) ==
    {i \in 1..Len(log) : log[i].e = e /\ log[i].tag = "batch"}

\* C10: Write batch defers to commit. An operation queued on a write batch has no
\* effect on the store until commit() has been called on the batch.
C10_BatchDefersToCommit ==
    \A j \in BatchEvents("apply") :
        \E i \in BatchEvents("commit") : i < j /\ log[i].aid = log[j].aid

----------------------------------------------------------------------------
(* Status changes of orders *)

InitStatus == InitRepsWith(MaxStatusActions)

NextStatus ==
    \/ \E p \in Procs :
          \/ CallUpdateOrder(p)
          \/ UpdateOrder(p)
          \/ CallBulkUpdateOrdersStatus(p)
          \/ BulkUpdateOrdersStatus(p)
          \/ RecalculateUserStats(p)
    \/ Serve

SpecStatus == InitStatus /\ [][NextStatus]_vars

\* The actions that are to recalculate the users they touch before they return.
RecalculatingActions ==
    {"addOrder", "updateOrder", "addCustomerShippingCost", "setCustomerWeightDetails",
     "deleteOrder", "bulkDeleteOrders", "bulkUpdateOrdersStatus", "addTransaction",
     "updateTransaction", "deleteTransaction", "addTempOrder", "updateTempOrder",
     "deleteTempOrder", "addTempOrderPayment"}

OrderCountInvariant(d, userId) ==
    userId \in DOMAIN d[USERS_COLLECTION] =>
        d[USERS_COLLECTION][userId].orderCount = ExpectedOrderCount(d, userId)

\* One of the actions has returned success to the UI and all its writes are served.
ReturnedSuccess(p) ==
    /\ proc[p].act = "idle"
    /\ proc[p].last.act \in RecalculatingActions
    /\ proc[p].last.ok
    /\ inflight = <<>>

\* C4: Recalculation on return. When one of the recalculating actions has returned
\* success, with all of its writes in the store, the debt invariant and the
\* orderCount invariant hold for every user.
C4_RecalculatedOnReturn ==
    \A p \in Procs :
        ReturnedSuccess(p) =>
            \A userId \in DOMAIN db[USERS_COLLECTION] :
                DebtInvariant(db, userId) /\ OrderCountInvariant(db, userId)


----------------------------------------------------------------------------
(* The creditors' book *)

\* Two creditors; the first is owed one debt.
CreditorsDb ==
    [EmptyDb EXCEPT
       ![CREDITORS_COLLECTION] = [c \in {1, 2} |-> [totalDebt |-> IF c = 1 THEN 1 ELSE 0]],
       ![EXTERNAL_DEBTS_COLLECTION] = [x \in {1} |-> [creditorId |-> 1, amount |-> 1]]]

InitCreditors ==
    /\ db = CreditorsDb
    /\ inflight = <<>>
    /\ proc = [p \in OneCaller |-> Idle]
    /\ nextId = [c \in Collections |-> 3]
    /\ faults = 0
    /\ log = <<>>
    /\ budget = MaxCreditorActions

NextCreditors ==
    \E p \in Procs :
        \/ CallAddCreditor(p)
        \/ AddCreditor(p)
        \/ CallAddExternalDebt(p)
        \/ AddExternalDebt(p)
        \/ CallUpdateExternalDebt(p)
        \/ UpdateExternalDebt(p)
        \/ CallDeleteExternalDebt(p)
        \/ DeleteExternalDebt(p)
        \/ RecalculateCreditorDebt(p)

SpecCreditors == InitCreditors /\ [][NextCreditors]_vars

\* The sum of amount over the external debts of the creditor.
OwedTo(d, creditorId) ==
    SumOver(d[EXTERNAL_DEBTS_COLLECTION],
            {x \in DOMAIN d[EXTERNAL_DEBTS_COLLECTION] :
                d[EXTERNAL_DEBTS_COLLECTION][x].creditorId = creditorId},
            "amount")

\* C5: Creditor debt conservation. After any sequence of addCreditor,
\* addExternalDebt, updateExternalDebt (of the amount or of the creditorId) and
\* deleteExternalDebt calls run one after another, every creditor's totalDebt is
\* the sum of amount over the external debts whose creditorId is that creditor.
C5_CreditorDebtConserved ==
    Quiescent => \A creditorId \in DOMAIN db[CREDITORS_COLLECTION] :
                    db[CREDITORS_COLLECTION][creditorId].totalDebt
                        = OwedTo(db, creditorId)


----------------------------------------------------------------------------
(* dbAdapter.doc(...).update with increment, called directly *)

\* The amounts passed to increment().
Increments == {-1} \cup (1..MaxAmount)

\* The document the updates are applied to.
CounterDoc == 1

\* A representative whose assignedOrders holds a number, nothing (NULL) or a
\* non-numeric value. The caller's frame keeps what the field held at first and the
\* amounts of the updates issued so far; `sequential` says that every update was
\* issued when no other was in flight.
InitUpdates ==
    /\ \E x \in (0..MaxAmount) \cup {5, NonNumeric} :
          /\ db = [EmptyDb EXCEPT ![REPRESENTATIVES_COLLECTION] =
                       Put(EmptyRec, CounterDoc, [assignedOrders |-> x])]
          /\ proc = [p \in OneCaller |->
                       [Idle EXCEPT !.v = [initial |-> x, issued |-> <<>>,
                                           sequential |-> TRUE]]]
    /\ inflight = <<>>
    /\ nextId = [c \in Collections |-> 3]
    /\ faults = 0
    /\ log = <<>>
    /\ budget = MaxUpdates

\* docRef.update({assignedOrders: increment(a)}): the call starts the request; the
\* caller may or may not have awaited its earlier calls.
CallDocUpdate(p) ==
    /\ proc[p].act = "idle"
    /\ budget > 0
    /\ \E a \in Increments :
          /\ inflight' = Append(inflight,
                 Request("update", REPRESENTATIVES_COLLECTION, CounterDoc, EmptyRec,
                         [assignedOrders |-> a], "call", 0,
                         Len(proc[p].v.issued) + 1, p))
          /\ proc' = [proc EXCEPT ![p].v.issued = Append(@, a),
                                  ![p].v.sequential = @ /\ inflight = <<>>]
    /\ budget' = budget - 1
    /\ UNCHANGED <<db, nextId, faults, log>>

NextUpdates ==
    \/ \E p \in Procs : CallDocUpdate(p)
    \/ Serve

SpecUpdates == InitUpdates /\ [][NextUpdates]_vars

RECURSIVE SumOfAmounts(_, _)
\* The sum of the amounts at the indices S of a sequence.
SumOfAmounts(amounts, S) ==
    IF S = {} THEN 0
    ELSE LET i == CHOOSE j \in S : TRUE
         IN amounts[i] + SumOfAmounts(amounts, S \ {i})

\* Every update the caller issued has completed successfully.
UpdatesCompleted(p) ==
    /\ inflight = <<>>
    /\ proc[p].v.issued # <<>>
    /\ \A i \in 1..Len(proc[p].v.issued) :
          \E j \in 1..Len(log) : log[j].e = "apply" /\ log[j].seq = i

CounterValue == db[REPRESENTATIVES_COLLECTION][CounterDoc].assignedOrders

\* C11: Lost update is reachable. When update calls that each apply an increment
\* to the same field of the same document have all completed successfully, the
\* field holds the initial value plus the amounts of some of the calls, at least
\* one of them - and it can be one only: see C11_LostUpdate.
C11_IncrementOutcomes ==
    \A p \in Procs :
        UpdatesCompleted(p) =>
            \E S \in SUBSET (1..Len(proc[p].v.issued)) :
                /\ S # {}
                /\ CounterValue = NumberOr0(proc[p].v.initial)
                                     + SumOfAmounts(proc[p].v.issued, S)

\* Two concurrent increments both completed and the field is the initial value
\* plus only one of the two amounts.
C11_LostUpdate ==
    \E p \in Procs :
        /\ UpdatesCompleted(p)
        /\ Len(proc[p].v.issued) = 2
        /\ ~proc[p].v.sequential
        /\ proc[p].v.initial = 5
        /\ proc[p].v.issued = <<1, 2>>
        /\ CounterValue = 5 + 2

\* C12: Increment correctness. For a document whose numeric field holds v (a
\* missing or non-numeric value counts as 0), increments applied one after the
\* other with no concurrent writer leave the field at v plus every amount.
C12_SequentialIncrements ==
    \A p \in Procs :
        UpdatesCompleted(p) /\ proc[p].v.sequential =>
            CounterValue = NumberOr0(proc[p].v.initial)
                              + SumOfAmounts(proc[p].v.issued,
                                             1..Len(proc[p].v.issued))

\* Two increments applied one after the other to a non-numeric field.
C12_Witness ==
    \E p \in Procs :
        /\ UpdatesCompleted(p)
        /\ proc[p].v.sequential
        /\ proc[p].v.initial = NonNumeric
        /\ proc[p].v.issued = <<2, 2>>
        /\ CounterValue = 4


----------------------------------------------------------------------------
(* Repeated recalculation *)

\* What one run of recalculateUserStats(userId) computes from the store d.
SingleRun(d, userId) ==
    LET os == DbQuery(d, ORDERS_COLLECTION, userOrdersQuery(userId), FALSE)
        ts == DbQuery(d, TEMP_ORDERS_COLLECTION, tempOrdersDirectQuery(userId), FALSE)
    IN [debt |-> SumOver(os, DOMAIN os, "remainingAmount")
                   + SumOver(ts, CountedTempOrders(ts), "remainingAmount"),
        orderCount |-> Cardinality(DOMAIN os)]

OrdersOf(d, userId) ==
    {o \in DOMAIN d[ORDERS_COLLECTION] : d[ORDERS_COLLECTION][o].userId = userId}

\* C14: orderCount invariant. After recalculateUserStats(U) returns, U.orderCount
\* is the number of U's orders whose status is not cancelled (temp orders are not
\* counted); a user with no orders, or whose only order is cancelled, has debt 0
\* and orderCount 0.
C14_OrderCountAfterRecalc ==
    \A p \in Procs : \A userId \in UserIds :
        RecalcReturned(p, userId) =>
            LET user == db[USERS_COLLECTION][userId]
            IN /\ user.orderCount = ExpectedOrderCount(db, userId)
               /\ (\A o \in OrdersOf(db, userId) :
                       db[ORDERS_COLLECTION][o].status = "cancelled")
                    => user.debt = 0 /\ user.orderCount = 0

\* recalculateUserStats(1) has returned for a user whose only order is cancelled
\* with an amount still open on it.
C14_Witness ==
    \E p \in Procs :
        /\ RecalcReturned(p, 1)
        /\ Cardinality(OrdersOf(db, 1)) = 1
        /\ \A o \in OrdersOf(db, 1) :
              /\ db[ORDERS_COLLECTION][o].status = "cancelled"
              /\ db[ORDERS_COLLECTION][o].remainingAmount > 0
        /\ db[USERS_COLLECTION][1].debt = 0
        /\ db[USERS_COLLECTION][1].orderCount = 0


----------------------------------------------------------------------------
(* Temp orders that get an assigned user *)

\* Two users without orders and one temp order of one sub-order that has no user
\* yet, part of it paid.
InitTempOrders ==
    /\ \E r \in 1..MaxAmount :
          db = [EmptyDb EXCEPT
                  ![USERS_COLLECTION] = [u \in UserIds |-> UserRow(0, 0, 0)],
                  ![SETTINGS_COLLECTION] =
                      [x \in {MainSettingsId} |-> SettingsRow(2, NULL, NULL)],
                  ![TEMP_ORDERS_COLLECTION] =
                      [t \in {1} |-> Merge(DefaultRow(TEMP_ORDERS_COLLECTION),
                                           [totalAmount |-> MaxAmount,
                                            remainingAmount |-> r,
                                            subOrderId |-> 1,
                                            subOrderRemaining |-> r])]]
    /\ inflight = <<>>
    /\ proc = [p \in OneCaller |-> Idle]
    /\ nextId = [c \in Collections |-> 3]
    /\ faults = 0
    /\ log = <<>>
    /\ budget = MaxTempActions

NextTempOrders ==
    \/ \E p \in Procs :
          \/ CallAddTempOrder(p)
          \/ AddTempOrder(p)
          \/ CallUpdateTempOrder(p)
          \/ UpdateTempOrder(p)
          \/ CallDeleteTempOrder(p)
          \/ DeleteTempOrder(p)
          \/ CallAddTempOrderPayment(p)
          \/ AddTempOrderPayment(p)
          \/ GetUserById(p)
          \/ GetAppSettings(p)
          \/ AddOrder(p)
          \/ DeleteOrder(p)
          \/ RecalculateUserStats(p)
    \/ Serve

SpecTempOrders == InitTempOrders /\ [][NextTempOrders]_vars

\* The temp orders to which the action that has just returned gave a user: the
\* one addTempOrder created with a user, or the one updateTempOrder assigned.
NewlyAssigned(p) ==
    {t \in DOMAIN db[TEMP_ORDERS_COLLECTION] :
        /\ db[TEMP_ORDERS_COLLECTION][t].assignedUserId # NULL
        /\ \/ /\ proc[p].last.act = "addTempOrder"
              /\ t = proc[p].last.val
           \/ /\ proc[p].last.act = "updateTempOrder"
              /\ t = proc[p].last.arg
              /\ proc[p].pre[TEMP_ORDERS_COLLECTION][t].assignedUserId = NULL}

\* C15: No double counting of a converted temp order. When addTempOrder or
\* updateTempOrder has given a temp order with remainingAmount r an assigned user
\* U and every request it issued has been served, the temp order's
\* parentInvoiceId is a main order created by the action, and a recalculation of
\* U gives a debt that is r more than it would have given before the action.
C15_ConvertedOnce ==
    \A p \in Procs :
        Quiescent /\ proc[p].last.ok =>
            \A t \in NewlyAssigned(p) :
                LET tempOrder == db[TEMP_ORDERS_COLLECTION][t]
                    U == tempOrder.assignedUserId
                IN /\ tempOrder.parentInvoiceId \in DOMAIN db[ORDERS_COLLECTION]
                   /\ tempOrder.parentInvoiceId \notin DOMAIN proc[p].pre[ORDERS_COLLECTION]
                   /\ SingleRun(db, U).debt
                        = SingleRun(proc[p].pre, U).debt + tempOrder.remainingAmount


----------------------------------------------------------------------------
(* Creditor actions with a store that can fail *)

InitCreditorsFaults ==
    /\ db = CreditorsDb
    /\ inflight = <<>>
    /\ proc = [p \in OneCaller |-> Idle]
    /\ nextId = [c \in Collections |-> 3]
    /\ faults = MaxFaults
    /\ log = <<>>
    /\ budget = MaxCreditorActions

SpecCreditorsFaults == InitCreditorsFaults /\ [][NextCreditors]_vars

\* C16: No exception crosses the action boundary. For every pattern of store
\* failures an exported action ends by returning its sentinel failure value and
\* never by throwing to its caller.
C16_NoExceptionEscapes ==
    \A p \in Procs : ~proc[p].last.threw


----------------------------------------------------------------------------
(* Actions called with the id of an entity that does not exist *)

\* Ids no row of any collection has.
UnknownIds == {7, 8}

\* The store of the representatives screen with a temp order of user 1, converted
\* or not.
InitNotFound ==
    /\ \E parent \in {NULL, 2} :
          db = [RepsDb EXCEPT
                  ![TEMP_ORDERS_COLLECTION] =
                      [t \in {1} |-> Merge(DefaultRow(TEMP_ORDERS_COLLECTION),
                                           [assignedUserId |-> 1,
                                            parentInvoiceId |-> parent,
                                            totalAmount |-> 1, remainingAmount |-> 1,
                                            subOrderId |-> 1, subOrderRemaining |-> 1])]]
    /\ inflight = <<>>
    /\ proc = [p \in OneCaller |-> Idle]
    /\ nextId = [c \in Collections |-> 3]
    /\ faults = 0
    /\ log = <<>>
    /\ budget = MaxNotFoundActions

\* The UI calls an action for a user, an order, a transaction or a temp order that
\* is not in the store.
CallWithUnknownId(p) ==
    /\ proc[p].act = "idle"
    /\ \E id \in UnknownIds :
          \/ Begin(p, "addOrder", "ao_user",
                   [arg |-> [userId |-> id, sellingPriceLYD |-> MaxAmount,
                             downPaymentLYD |-> 1, status |-> "pending"],
                    userData |-> DefaultRow(USERS_COLLECTION), orderId |-> NULL])
          \/ Begin(p, "updateOrder", "uo_get",
                   [arg |-> [orderId |-> id, data |-> [status |-> "cancelled"]],
                    userId |-> NULL])
          \/ Begin(p, "deleteOrder", "do_get",
                   [arg |-> id, batchErr |-> FALSE, userId |-> NULL, n |-> 0])
          \/ Begin(p, "assignRepresentativeToOrder", "as_get",
                   [arg |-> [orderId |-> id, rep |-> 2], batchErr |-> FALSE])
          \/ Begin(p, "unassignRepresentativeFromOrder", "un_get",
                   [arg |-> id, batchErr |-> FALSE])
          \/ Begin(p, "setCustomerWeightDetails", "sw_get",
                   [arg |-> [orderId |-> id, weight |-> 1, customerPricePerKilo |-> 1]])
          \/ Begin(p, "addCustomerShippingCost", "sc_get",
                   [arg |-> [orderId |-> id, costInUSD |-> 1],
                    orderData |-> DefaultRow(ORDERS_COLLECTION)])
          \/ Begin(p, "updateTransaction", "ut_get",
                   [arg |-> [transactionId |-> id, newAmount |-> MaxAmount]])
          \/ Begin(p, "deleteTransaction", "dt_get",
                   [arg |-> id, batchErr |-> FALSE, userId |-> NULL])
          \/ Begin(p, "updateTempOrder", "tu_get",
                   [arg |-> id, data |-> [assignedUserId |-> 1],
                    oldData |-> DefaultRow(TEMP_ORDERS_COLLECTION),
                    newUserId |-> NULL, usersToUpdate |-> <<>>])
          \/ Begin(p, "deleteTempOrder", "td_get",
                   [arg |-> id, data |-> DefaultRow(TEMP_ORDERS_COLLECTION),
                    userIdToRecalculate |-> NULL])
          \/ Begin(p, "addTempOrderPayment", "tp_get",
                   [arg |-> id, subOrderId |-> 1, amount |-> 1,
                    final |-> DefaultRow(TEMP_ORDERS_COLLECTION)])

NextNotFound ==
    \E p \in Procs :
        \/ CallWithUnknownId(p)
        \/ AddOrder(p)
        \/ UpdateOrder(p)
        \/ DeleteOrder(p)
        \/ AssignRepresentativeToOrder(p)
        \/ UnassignRepresentativeFromOrder(p)
        \/ SetCustomerWeightDetails(p)
        \/ AddCustomerShippingCost(p)
        \/ UpdateTransaction(p)
        \/ DeleteTransaction(p)
        \/ UpdateTempOrder(p)
        \/ DeleteTempOrder(p)
        \/ AddTempOrderPayment(p)

SpecNotFound == InitNotFound /\ [][NextNotFound]_vars

\* The entity an action requires: its collection and the id the call named.
RequiredEntity(last) ==
    CASE last.act = "addOrder" ->
           [col |-> USERS_COLLECTION, id |-> last.arg.userId]
      [] last.act \in {"updateOrder", "assignRepresentativeToOrder",
                       "setCustomerWeightDetails", "addCustomerShippingCost"} ->
           [col |-> ORDERS_COLLECTION, id |-> last.arg.orderId]
      [] last.act \in {"deleteOrder", "unassignRepresentativeFromOrder"} ->
           [col |-> ORDERS_COLLECTION, id |-> last.arg]
      [] last.act = "updateTransaction" ->
           [col |-> TRANSACTIONS_COLLECTION, id |-> last.arg.transactionId]
      [] last.act = "deleteTransaction" ->
           [col |-> TRANSACTIONS_COLLECTION, id |-> last.arg]
      [] last.act \in {"updateTempOrder", "deleteTempOrder", "addTempOrderPayment"} ->
           [col |-> TEMP_ORDERS_COLLECTION, id |-> last.arg]

\* The call that has just returned named an entity that was not in the store.
ReturnedNotFound(p) ==
    /\ proc[p].act = "idle"
    /\ proc[p].last.act # "none"
    /\ RequiredEntity(proc[p].last).id
          \notin DOMAIN proc[p].pre[RequiredEntity(proc[p].last).col]

\* C17: Not-found leaves the store unchanged. When the user, order, transaction
\* or temp order an action requires is absent, the action returns false or null,
\* has issued no write, and no row of any collection is created, changed or
\* deleted.
C17_NotFoundUnchanged ==
    \A p \in Procs :
        ReturnedNotFound(p) =>
            /\ ~proc[p].last.ok
            /\ ~proc[p].last.threw
            /\ inflight = <<>>
            /\ db = proc[p].pre

\* addTempOrderPayment for an unknown temp order has returned, after an earlier
\* call of the sequence.
C17_Witness ==
    \E p \in Procs :
        /\ ReturnedNotFound(p)
        /\ proc[p].last.act = "addTempOrderPayment"
        /\ budget < MaxNotFoundActions - 1
        /\ db[TEMP_ORDERS_COLLECTION] # EmptyRec


----------------------------------------------------------------------------
(* Calls rejected by validation *)

\* The store of the ledger, about to fail a request, and the two actions that
\* validate an amount.
InitValidation ==
    /\ \E D \in 0..1, exchangeRate \in {0, 2} : db = LedgerDb(MaxAmount, D, exchangeRate)
    /\ inflight = <<>>
    /\ proc = [p \in OneCaller |-> Idle]
    /\ nextId = [c \in Collections |-> 3]
    /\ faults = MaxFaults
    /\ log = <<>>
    /\ budget = MaxValidationActions

NextValidation ==
    \/ \E p \in Procs :
          \/ CallSetCustomerWeightDetails(p)
          \/ SetCustomerWeightDetails(p)
          \/ CallAddCustomerShippingCost(p)
          \/ AddCustomerShippingCost(p)
          \/ GetAppSettings(p)
          \/ RecalculateUserStats(p)
    \/ Serve

SpecValidation == InitValidation /\ [][NextValidation]_vars

\* setCustomerWeightDetails with weight < 0 or addCustomerShippingCost with
\* costInUSD < 0 has just returned.
ReturnedInvalid(p) ==
    /\ proc[p].act = "idle"
    /\ \/ /\ proc[p].last.act = "setCustomerWeightDetails"
          /\ proc[p].last.arg.weight < 0
       \/ /\ proc[p].last.act = "addCustomerShippingCost"
          /\ proc[p].last.arg.costInUSD < 0

\* C18: Validation rejection. setCustomerWeightDetails with weight < 0 and
\* addCustomerShippingCost with costInUSD < 0 return false without issuing any
\* store read or write: the store is as the call found it, no request was logged
\* or is in flight, and a store that is about to fail has not been asked (as the
\* first action of a run the call leaves every fault unused).
C18_ValidationRejects ==
    \A p \in Procs :
        ReturnedInvalid(p) =>
            /\ ~proc[p].last.ok
            /\ ~proc[p].last.threw
            /\ db = proc[p].pre
            /\ inflight = <<>>
            /\ log = <<>>
            /\ budget = MaxValidationActions - 1 => faults = MaxFaults

\* A rejected addCustomerShippingCost that followed an action that changed the
\* store.
C18_Witness ==
    \E p \in Procs :
        /\ ReturnedInvalid(p)
        /\ proc[p].last.act = "addCustomerShippingCost"
        /\ budget < MaxValidationActions - 1
        /\ \E o \in DOMAIN db[ORDERS_COLLECTION] :
              db[ORDERS_COLLECTION][o].customerWeightCost > 0


----------------------------------------------------------------------------
(* Reassignment of an order *)

\* assignRepresentativeToOrder(orderId, R2) has just returned true for an order
\* that was assigned to another representative R1.
Reassigned(p, orderId, R1, R2) ==
    /\ proc[p].act = "idle"
    /\ proc[p].last.act = "assignRepresentativeToOrder"
    /\ proc[p].last.ok
    /\ proc[p].last.arg = [orderId |-> orderId, rep |-> R2]
    /\ orderId \in DOMAIN proc[p].pre[ORDERS_COLLECTION]
    /\ proc[p].pre[ORDERS_COLLECTION][orderId].representativeId = R1
    /\ R1 # NULL
    /\ R1 # R2

\* C19: Reassignment moves one count. If an order is assigned to R1 and
\* assignRepresentativeToOrder is called for it with a different representative
\* R2 (no concurrent action, no failure), R1.assignedOrders is one less, R2's is
\* one more, and the order's representativeId is R2.
C19_ReassignmentMovesOne ==
    \A p \in Procs : \A orderId \in DOMAIN db[ORDERS_COLLECTION] :
        \A R1, R2 \in DOMAIN db[REPRESENTATIVES_COLLECTION] :
            Reassigned(p, orderId, R1, R2) =>
                LET before == proc[p].pre[REPRESENTATIVES_COLLECTION]
                    after == db[REPRESENTATIVES_COLLECTION]
                IN /\ after[R1].assignedOrders = before[R1].assignedOrders - 1
                   /\ after[R2].assignedOrders = before[R2].assignedOrders + 1
                   /\ db[ORDERS_COLLECTION][orderId].representativeId = R2

\* Order 1 has been moved from representative 1 to representative 2.
C19_Witness ==
    \E p \in Procs :
        /\ Reassigned(p, 1, 1, 2)
        /\ db[REPRESENTATIVES_COLLECTION][1].assignedOrders = 0
        /\ db[REPRESENTATIVES_COLLECTION][2].assignedOrders = 1


----------------------------------------------------------------------------
(* Status transitions implied by actions *)

InitDelivery == InitRepsWith(MaxDeliveryActions)

NextDelivery ==
    \/ \E p \in Procs :
          \/ CallAssignRepresentativeToOrder(p)
          \/ AssignRepresentativeToOrder(p)
          \/ CallBulkAssignRepresentative(p)
          \/ BulkAssignRepresentative(p)
          \/ CallUnassignRepresentativeFromOrder(p)
          \/ UnassignRepresentativeFromOrder(p)
          \/ CallRecordRepresentativePayment(p)
          \/ RecordRepresentativePayment(p)
          \/ CallUpdateOrder(p)
          \/ UpdateOrder(p)
          \/ CallBulkUpdateOrdersStatus(p)
          \/ BulkUpdateOrdersStatus(p)
          \/ RecalculateUserStats(p)
    \/ Serve

SpecDelivery == InitDelivery /\ [][NextDelivery]_vars

\* The action has just returned true.
Succeeded(p, act) ==
    /\ proc[p].act = "idle"
    /\ proc[p].last.act = act
    /\ proc[p].last.ok

\* C20: Status transitions implied by actions. After a successful
\* assignRepresentativeToOrder or bulkAssignRepresentative the order's status is
\* out_for_delivery; after a successful unassignRepresentativeFromOrder on an
\* order that had a representative its status is ready and its representativeId
\* and representativeName are null; after a successful
\* recordRepresentativePayment its status is delivered and deliveryDate is set;
\* every status an action writes is one of the eleven values of the status set.
C20_StatusTransitions ==
    LET orders == db[ORDERS_COLLECTION]
    IN /\ \A p \in Procs :
          LET arg == proc[p].last.arg
          IN /\ Succeeded(p, "assignRepresentativeToOrder") =>
                   orders[arg.orderId].status = "out_for_delivery"
             /\ Succeeded(p, "bulkAssignRepresentative") =>
                   \A k \in 1..Len(arg.orderIds) :
                       orders[arg.orderIds[k]].status = "out_for_delivery"
             /\ (Succeeded(p, "unassignRepresentativeFromOrder")
                   /\ proc[p].pre[ORDERS_COLLECTION][arg].representativeId # NULL) =>
                   (/\ orders[arg].status = "ready"
                    /\ orders[arg].representativeId = NULL
                    /\ orders[arg].representativeName = NULL)
             /\ Succeeded(p, "recordRepresentativePayment") =>
                   /\ orders[arg.orderId].status = "delivered"
                   /\ orders[arg.orderId].deliveryDate # NULL
       /\ \A o \in DOMAIN orders : orders[o].status \in OrderStatus

\* recordRepresentativePayment has returned true for an order that was out for
\* delivery with a representative.
C20_Witness ==
    \E p \in Procs :
        /\ Succeeded(p, "recordRepresentativePayment")
        /\ proc[p].pre[ORDERS_COLLECTION][proc[p].last.arg.orderId].status
              = "out_for_delivery"
        /\ db[ORDERS_COLLECTION][proc[p].last.arg.orderId].status = "delivered"
        /\ db[ORDERS_COLLECTION][proc[p].last.arg.orderId].deliveryDate = Now


----------------------------------------------------------------------------
(* Cascading delete of orders *)

\* The orders the delete that has just returned was asked to delete and that
\* were in the store when it started.
AskedToDelete(p) ==
    LET arg == proc[p].last.arg
        before == DOMAIN proc[p].pre[ORDERS_COLLECTION]
    IN IF proc[p].last.act = "deleteOrder" THEN {arg} \cap before
       ELSE IF proc[p].last.act = "bulkDeleteOrders"
       THEN {arg[k] : k \in 1..Len(arg)} \cap before
       ELSE {}

\* C21: Cascading order delete. Whenever deleteOrder(o) or bulkDeleteOrders([..o..])
\* returns true, order o is absent from the store, no Transaction row with
\* orderId = o remains, the representative o was assigned to has assignedOrders
\* lowered by 1 for o, and the owning user's debt and orderCount no longer
\* include o.
C21_CascadingOrderDelete ==
    \A p \in Procs :
        (/\ proc[p].act = "idle"
         /\ proc[p].last.act \in {"deleteOrder", "bulkDeleteOrders"}
         /\ proc[p].last.ok) =>
            LET gone == AskedToDelete(p)
                before == proc[p].pre
            IN /\ gone \cap DOMAIN db[ORDERS_COLLECTION] = {}
               /\ \A t \in DOMAIN db[TRANSACTIONS_COLLECTION] :
                     db[TRANSACTIONS_COLLECTION][t].orderId \notin gone
               /\ \A r \in DOMAIN before[REPRESENTATIVES_COLLECTION] :
                     db[REPRESENTATIVES_COLLECTION][r].assignedOrders
                        = before[REPRESENTATIVES_COLLECTION][r].assignedOrders
                            - Cardinality({o \in gone :
                                  before[ORDERS_COLLECTION][o].representativeId = r})
               /\ \A o \in gone :
                     LET u == before[ORDERS_COLLECTION][o].userId
                     IN u \in DOMAIN db[USERS_COLLECTION] =>
                           /\ db[USERS_COLLECTION][u].debt = SingleRun(db, u).debt
                           /\ db[USERS_COLLECTION][u].orderCount
                                 = SingleRun(db, u).orderCount


----------------------------------------------------------------------------
(* Queries with an operator the adapter does not translate *)

\* Two temp orders of any status, assignment and conversion.
InitQueries ==
    /\ \E ts \in [{1, 2} -> AnyTempOrderRows] :
          db = [EmptyDb EXCEPT ![TEMP_ORDERS_COLLECTION] = ts]
    /\ inflight = <<>>
    /\ proc = [p \in OneCaller |-> Idle]
    /\ nextId = [c \in Collections |-> 3]
    /\ faults = 0
    /\ log = <<>>
    /\ budget = MaxQueryCalls

NextQueries ==
    \E p \in Procs : CallGetTempOrders(p) \/ GetTempOrders(p)

SpecQueries == InitQueries /\ [][NextQueries]_vars

\* C22: Unsupported query operators fail loudly. A query with a condition whose
\* operator is not '==', 'in' or 'array-contains' (the '!=' of getTempOrders)
\* ends in an error: getTempOrders does not return the result of such a query as
\* a success.
C22_UnsupportedOperatorFails ==
    \A p \in Procs :
        proc[p].act = "idle" /\ proc[p].last.act = "getTempOrders" => ~proc[p].last.ok


----------------------------------------------------------------------------
(* The adapter's set and update called directly on a document reference *)

ExistingDoc == 1
MissingDoc == 2
NewDoc == 3

\* One user row; the documents MissingDoc and NewDoc have no row.
InitAdapter ==
    /\ \E x \in Amounts :
          db = [EmptyDb EXCEPT ![USERS_COLLECTION] =
                    Put(EmptyRec, ExistingDoc, UserRow(x, 1, 1))]
    /\ proc = [p \in OneCaller |-> [Idle EXCEPT !.v = [issued |-> <<>>], !.pre = db]]
    /\ inflight = <<>>
    /\ nextId = [c \in Collections |-> 4]
    /\ faults = 0
    /\ log = <<>>
    /\ budget = MaxAdapterCalls

\* docRef.update(data) with data = {debt: increment(a)} or {debt: a}, on a document
\* that has a row or on one that has none.
CallDocUpdateOn(p) ==
    /\ proc[p].act = "idle"
    /\ budget > 0
    /\ \E id \in {ExistingDoc, MissingDoc}, a \in 1..MaxAmount, operator \in BOOLEAN :
          /\ inflight' = Append(inflight,
                 Request("update", USERS_COLLECTION, id,
                         IF operator THEN EmptyRec ELSE [debt |-> a],
                         IF operator THEN [debt |-> a] ELSE EmptyRec,
                         "call", 0, Len(proc[p].v.issued) + 1, p))
          /\ proc' = [proc EXCEPT ![p].v.issued =
                         Append(@, [op |-> "update", id |-> id, amount |-> a,
                                    flag |-> operator])]
    /\ budget' = budget - 1
    /\ UNCHANGED <<db, nextId, faults, log>>

\* docRef.set(data, {merge}) with data = {debt: a}, on a document that has a row or
\* on a new one.
CallDocSet(p) ==
    /\ proc[p].act = "idle"
    /\ budget > 0
    /\ \E id \in {ExistingDoc, NewDoc}, a \in 1..MaxAmount, merge \in BOOLEAN :
          /\ inflight' = Append(inflight,
                 Request(IF merge THEN "setMerge" ELSE "set", USERS_COLLECTION, id,
                         [debt |-> a], EmptyRec,
                         "call", 0, Len(proc[p].v.issued) + 1, p))
          /\ proc' = [proc EXCEPT ![p].v.issued =
                         Append(@, [op |-> "set", id |-> id, amount |-> a,
                                    flag |-> merge])]
    /\ budget' = budget - 1
    /\ UNCHANGED <<db, nextId, faults, log>>

NextAdapter ==
    \/ \E p \in Procs : CallDocUpdateOn(p)
    \/ \E p \in Procs : CallDocSet(p)
    \/ Serve

SpecAdapter == InitAdapter /\ [][NextAdapter]_vars

\* The calls the caller issued so far.
Issued(p) == proc[p].v.issued

\* The events the store logged for the i-th call.
OutcomesOf(i) == {log[j].e : j \in {k \in 1..Len(log) : log[k].seq = i}}

C24_IdempotentUpsert ==
    \A p \in Procs :
        (/\ inflight = <<>>
         /\ Issued(p) # <<>>
         /\ \A i \in 1..Len(Issued(p)) :
               /\ Issued(p)[i].op = "set"
               /\ Issued(p)[i].id = Issued(p)[1].id
               /\ Issued(p)[i].amount = Issued(p)[1].amount) =>
            db = DocSet(proc[p].pre, USERS_COLLECTION, Issued(p)[1].id,
                        [debt |-> Issued(p)[1].amount])

\* The same set was served twice, once with merge and once without, on a row that
\* holds other columns.
C24_Witness ==
    \E p \in Procs :
        /\ inflight = <<>>
        /\ Len(Issued(p)) = 2
        /\ \A i \in 1..2 : Issued(p)[i].op = "set" /\ Issued(p)[i].id = ExistingDoc
        /\ Issued(p)[1].amount = Issued(p)[2].amount
        /\ Issued(p)[1].flag /\ ~Issued(p)[2].flag
        /\ db[USERS_COLLECTION][ExistingDoc].orderCount = 1


----------------------------------------------------------------------------
(* getAppSettings called on its own *)

\* The 'main' settings row is absent, or present with each field stored or not;
\* one store request may fail.
InitSettings ==
    /\ \E settings \in {EmptyRec} \cup
                       {[x \in {MainSettingsId} |-> SettingsRow(r, l, u)] :
                            r \in {NULL, 2, 3}, l \in {NULL, 1, 2}, u \in {NULL, 1}} :
          db = [EmptyDb EXCEPT ![SETTINGS_COLLECTION] = settings]
    /\ proc = [p \in OneCaller |-> Idle]
    /\ inflight = <<>>
    /\ nextId = [c \in Collections |-> 3]
    /\ faults = MaxFaults
    /\ log = <<>>
    /\ budget = MaxSettingsCalls

CallGetAppSettings(p) ==
    /\ proc[p].act = "idle"
    /\ Begin(p, "getAppSettings", "gs_get", SettingsFrame)

NextSettings ==
    \/ \E p \in Procs : CallGetAppSettings(p)
    \/ \E p \in Procs : GetAppSettings(p)

SpecSettings == InitSettings /\ [][NextSettings]_vars

\* The settings a call returned.
ReturnedSettings(p) == proc[p].last.val

\* exchangeRate = 1, pricePerKiloLYD = 0, pricePerKiloUSD = 0
IsDefaultSettings(s) ==
    s.exchangeRate = 1 /\ s.pricePerKiloLYD = 0 /\ s.pricePerKiloUSD = 0

\* C25: Settings defaults and lazy creation. getAppSettings always returns
\* settings. With no store error so far: when there was no 'main' row it returns
\* the defaults and the row now exists with them; when there was one, each field
\* the row lacks is returned with its default, each present field as stored, and
\* the store is unchanged. When a store request of the first call failed, that call
\* returned the defaults.
C25_SettingsDefaults ==
    \A p \in Procs :
        (proc[p].act = "idle" /\ proc[p].last.act = "getAppSettings") =>
            LET before == proc[p].pre[SETTINGS_COLLECTION]
                after == db[SETTINGS_COLLECTION]
                s == ReturnedSettings(p)
            IN /\ proc[p].last.ok
               /\ (faults = MaxFaults /\ MainSettingsId \notin DOMAIN before) =>
                     /\ IsDefaultSettings(s)
                     /\ MainSettingsId \in DOMAIN after
                     /\ IsDefaultSettings(after[MainSettingsId])
               /\ (faults = MaxFaults /\ MainSettingsId \in DOMAIN before) =>
                     /\ \A f \in {"exchangeRate", "pricePerKiloLYD", "pricePerKiloUSD"} :
                           s[f] = IF before[MainSettingsId][f] # NULL
                                  THEN before[MainSettingsId][f]
                                  ELSE IF f = "exchangeRate" THEN 1 ELSE 0
                     /\ db = proc[p].pre
               /\ (faults < MaxFaults /\ budget = MaxSettingsCalls - 1) =>
                     IsDefaultSettings(s)

\* A call created the row with the defaults.
C25_Witness ==
    \E p \in Procs :
        /\ proc[p].act = "idle" /\ proc[p].last.act = "getAppSettings"
        /\ faults = MaxFaults
        /\ MainSettingsId \notin DOMAIN proc[p].pre[SETTINGS_COLLECTION]
        /\ MainSettingsId \in DOMAIN db[SETTINGS_COLLECTION]
        /\ IsDefaultSettings(ReturnedSettings(p))

\* A call read a row that lacks the exchange rate and holds a price per kilo.
C25_WitnessPartialRow ==
    \E p \in Procs :
        /\ proc[p].act = "idle" /\ proc[p].last.act = "getAppSettings"
        /\ faults = MaxFaults
        /\ MainSettingsId \in DOMAIN proc[p].pre[SETTINGS_COLLECTION]
        /\ proc[p].pre[SETTINGS_COLLECTION][MainSettingsId].exchangeRate = NULL
        /\ ReturnedSettings(p) = [exchangeRate |-> 1, pricePerKiloLYD |-> 2,
                                  pricePerKiloUSD |-> 0]

\* A call whose read failed returned the defaults.
C25_WitnessStoreError ==
    \E p \in Procs :
        /\ proc[p].act = "idle" /\ proc[p].last.act = "getAppSettings"
        /\ faults < MaxFaults /\ budget = MaxSettingsCalls - 1
        /\ IsDefaultSettings(ReturnedSettings(p))


----------------------------------------------------------------------------
(* Weight and shipping adjustments of one order *)

\* One order of user 1, with or without an exchange rate of its own; the settings
\* row may not exist yet.
InitAdjust ==
    /\ \E D \in 0..1, exchangeRate \in {0, 2},
          settings \in {EmptyRec, [x \in {MainSettingsId} |-> SettingsRow(3, NULL, NULL)]} :
          db = [LedgerDb(MaxAmount, D, exchangeRate) EXCEPT ![SETTINGS_COLLECTION] = settings]
    /\ inflight = <<>>
    /\ proc = [p \in OneCaller |-> Idle]
    /\ nextId = [c \in Collections |-> 3]
    /\ faults = 0
    /\ log = <<>>
    /\ budget = MaxAdjustActions

\* The UI calls setCustomerWeightDetails with a weight and a customer price per kilo.
CallSetCustomerWeightDetailsAt(p) ==
    /\ proc[p].act = "idle"
    /\ \E orderId \in DOMAIN db[ORDERS_COLLECTION], weight \in 0..MaxAmount,
          customerPricePerKilo \in 1..2 :
          Begin(p, "setCustomerWeightDetails", "sw_get",
                [arg |-> [orderId |-> orderId, weight |-> weight,
                          customerPricePerKilo |-> customerPricePerKilo]])

NextAdjust ==
    \/ \E p \in Procs :
          \/ CallSetCustomerWeightDetailsAt(p)
          \/ SetCustomerWeightDetails(p)
          \/ CallAddCustomerShippingCost(p)
          \/ AddCustomerShippingCost(p)
          \/ GetAppSettings(p)
          \/ RecalculateUserStats(p)
    \/ Serve

SpecAdjust == InitAdjust /\ [][NextAdjust]_vars

\* The action has returned success and every write it issued has been served.
AdjustmentDone(p, act) ==
    /\ proc[p].act = "idle"
    /\ proc[p].last.act = act
    /\ proc[p].last.ok
    /\ inflight = <<>>

\* order.exchangeRate || (await getAppSettings()).exchangeRate, in the store d.
RateFor(d, orderId) ==
    LET order == d[ORDERS_COLLECTION][orderId]
        settings == d[SETTINGS_COLLECTION]
    IN IF order.exchangeRate # 0 THEN order.exchangeRate
       ELSE IF MainSettingsId \in DOMAIN settings
                 /\ settings[MainSettingsId].exchangeRate # NULL
            THEN settings[MainSettingsId].exchangeRate
            ELSE 1

\* The order's sellingPriceLYD and remainingAmount both moved by delta.
MovedBy(p, orderId, delta) ==
    LET before == proc[p].pre[ORDERS_COLLECTION][orderId]
        after == db[ORDERS_COLLECTION][orderId]
    IN /\ after.sellingPriceLYD = before.sellingPriceLYD + delta
       /\ after.remainingAmount = before.remainingAmount + delta
       /\ after.sellingPriceLYD - after.remainingAmount
             = before.sellingPriceLYD - before.remainingAmount

\* w * p - (previous customerWeightCost) of the call that returned.
WeightDelta(p) ==
    LET arg == proc[p].last.arg
    IN arg.weight * arg.customerPricePerKilo
          - proc[p].pre[ORDERS_COLLECTION][arg.orderId].customerWeightCost

\* C26: Weight and shipping adjustments apply a delta. Once a successful
\* setCustomerWeightDetails(o, w, c, p) has its writes served, sellingPriceLYD and
\* remainingAmount of o have both changed by w * p - (previous customerWeightCost);
\* once a successful addCustomerShippingCost(o, cost) has, both have changed by
\* (cost - previous customerWeightCostUSD) * exchangeRate; the amount collected,
\* sellingPriceLYD - remainingAmount, is as before.
C26_AdjustmentsApplyDelta ==
    \A p \in Procs :
        /\ AdjustmentDone(p, "setCustomerWeightDetails") =>
              MovedBy(p, proc[p].last.arg.orderId, WeightDelta(p))
        /\ AdjustmentDone(p, "addCustomerShippingCost") =>
              LET arg == proc[p].last.arg
                  before == proc[p].pre[ORDERS_COLLECTION][arg.orderId]
              IN MovedBy(p, arg.orderId,
                         (arg.costInUSD - before.customerWeightCostUSD)
                            * RateFor(proc[p].pre, arg.orderId))

\* A shipping cost was lowered from a previous one, at the rate of the settings.
C26_Witness ==
    \E p \in Procs :
        /\ AdjustmentDone(p, "addCustomerShippingCost")
        /\ proc[p].pre[ORDERS_COLLECTION][1].customerWeightCostUSD = 1
        /\ proc[p].pre[ORDERS_COLLECTION][1].exchangeRate = 0
        /\ proc[p].last.arg.costInUSD = 0
        /\ db[ORDERS_COLLECTION][1].sellingPriceLYD
              = proc[p].pre[ORDERS_COLLECTION][1].sellingPriceLYD - 3

\* A weight cost was changed from a previous nonzero one.
C26_WitnessWeight ==
    \E p \in Procs :
        /\ AdjustmentDone(p, "setCustomerWeightDetails")
        /\ proc[p].pre[ORDERS_COLLECTION][1].customerWeightCost = 2
        /\ WeightDelta(p) = 2


\* The 'order'-type Transaction rows of the order that the call added.
AddedEntries(p, orderId) ==
    TransactionsOf(db, orderId, "order") \ DOMAIN proc[p].pre[TRANSACTIONS_COLLECTION]

\* C28: Weight-change ledger entry. Once a successful setCustomerWeightDetails has
\* its writes served, it has added exactly one 'order'-type Transaction for the
\* order, with amount equal to the cost delta, when the delta is nonzero, and no
\* Transaction at all when the delta is zero; the rows that were there are as
\* before.
C28_WeightChangeEntry ==
    \A p \in Procs :
        AdjustmentDone(p, "setCustomerWeightDetails") =>
            LET orderId == proc[p].last.arg.orderId
                before == proc[p].pre[TRANSACTIONS_COLLECTION]
                after == db[TRANSACTIONS_COLLECTION]
            IN /\ \A t \in DOMAIN before : t \in DOMAIN after /\ after[t] = before[t]
               /\ IF WeightDelta(p) # 0
                  THEN /\ Cardinality(DOMAIN after \ DOMAIN before) = 1
                       /\ Cardinality(AddedEntries(p, orderId)) = 1
                       /\ \A t \in AddedEntries(p, orderId) :
                             after[t].amount = WeightDelta(p)
                  ELSE DOMAIN after = DOMAIN before

\* A weight change with a negative delta added its entry.
C28_Witness ==
    \E p \in Procs :
        /\ AdjustmentDone(p, "setCustomerWeightDetails")
        /\ WeightDelta(p) < 0
        /\ \E t \in AddedEntries(p, proc[p].last.arg.orderId) :
              db[TRANSACTIONS_COLLECTION][t].amount = WeightDelta(p)

\* A weight change with a zero delta, after an earlier change, added none.
C28_WitnessZeroDelta ==
    \E p \in Procs :
        /\ AdjustmentDone(p, "setCustomerWeightDetails")
        /\ WeightDelta(p) = 0
        /\ proc[p].last.arg.weight > 0


----------------------------------------------------------------------------
(* The same adjustment called again after it returned *)

\* The UI calls the action again, with the same arguments, once the earlier call
\* has returned true. The un-awaited writes of the earlier call may not have been
\* served yet. `pre` stays the store as the first call found it.
CallAgain(p) ==
    /\ proc[p].act = "idle"
    /\ proc[p].last.act \in {"setCustomerWeightDetails", "addCustomerShippingCost"}
    /\ proc[p].last.ok
    /\ budget > 0
    /\ budget' = budget - 1
    /\ proc' = [proc EXCEPT ![p] =
                   [act |-> proc[p].last.act,
                    pc |-> IF proc[p].last.act = "setCustomerWeightDetails"
                           THEN "sw_get" ELSE "sc_get",
                    v |-> [arg |-> proc[p].last.arg,
                           orderData |-> DefaultRow(ORDERS_COLLECTION)],
                    stack |-> <<>>, aid |-> budget, pre |-> proc[p].pre,
                    last |-> Idle.last]]
    /\ log' = <<>>
    /\ UNCHANGED <<db, inflight, nextId, faults>>

\* The first call of the session.
CallFirst(p) ==
    /\ proc[p].last.act = "none"
    /\ budget = MaxRepeatActions
    /\ \/ CallSetCustomerWeightDetailsAt(p)
       \/ CallAddCustomerShippingCost(p)

InitRepeat ==
    /\ \E exchangeRate \in {0, 2} : db = LedgerDb(MaxAmount, 0, exchangeRate)
    /\ inflight = <<>>
    /\ proc = [p \in OneCaller |-> Idle]
    /\ nextId = [c \in Collections |-> 3]
    /\ faults = 0
    /\ log = <<>>
    /\ budget = MaxRepeatActions

NextRepeat ==
    \/ \E p \in Procs :
          \/ CallFirst(p)
          \/ CallAgain(p)
          \/ SetCustomerWeightDetails(p)
          \/ AddCustomerShippingCost(p)
          \/ GetAppSettings(p)
          \/ RecalculateUserStats(p)
    \/ Serve

SpecRepeat == InitRepeat /\ [][NextRepeat]_vars

\* The action was called, and called again after it returned; the last call has
\* returned success and every write has been served.
RepeatedDone(p, act) ==
    /\ AdjustmentDone(p, act)
    /\ budget < MaxRepeatActions - 1

\* C27: Weight and shipping adjustments are idempotent. After
\* setCustomerWeightDetails called twice in a row with the same arguments on the
\* same order (or addCustomerShippingCost twice with the same cost), the order's
\* sellingPriceLYD and remainingAmount and the Transaction rows are as one call
\* leaves them: both amounts moved once by the delta of the first call, and one
\* ledger entry for a nonzero weight delta, none otherwise.
C27_AdjustmentsIdempotent ==
    \A p \in Procs :
        /\ RepeatedDone(p, "setCustomerWeightDetails") =>
              /\ MovedBy(p, proc[p].last.arg.orderId, WeightDelta(p))
              /\ Cardinality(DOMAIN db[TRANSACTIONS_COLLECTION]
                                \ DOMAIN proc[p].pre[TRANSACTIONS_COLLECTION])
                    = IF WeightDelta(p) # 0 THEN 1 ELSE 0
        /\ RepeatedDone(p, "addCustomerShippingCost") =>
              LET arg == proc[p].last.arg
                  before == proc[p].pre[ORDERS_COLLECTION][arg.orderId]
              IN /\ MovedBy(p, arg.orderId,
                            (arg.costInUSD - before.customerWeightCostUSD)
                               * RateFor(proc[p].pre, arg.orderId))
                 /\ DOMAIN db[TRANSACTIONS_COLLECTION]
                       = DOMAIN proc[p].pre[TRANSACTIONS_COLLECTION]


----------------------------------------------------------------------------
(* Orders added for one user, one after another *)

\* The user adding the orders.
CounterUser == 1

InitCounter ==
    /\ db = [EmptyDb EXCEPT
               ![USERS_COLLECTION] = [u \in {CounterUser} |-> UserRow(0, 0, 0)],
               ![SETTINGS_COLLECTION] =
                   [x \in {MainSettingsId} |-> SettingsRow(2, NULL, NULL)]]
    /\ inflight = <<>>
    /\ proc = [p \in OneCaller |-> Idle]
    /\ nextId = [c \in Collections |-> 1]
    /\ faults = 0
    /\ log = <<>>
    /\ budget = MaxCounterOrders

\* The UI calls addOrder for the user: the first call, or a call made after the
\* previous one has returned the created order. The un-awaited writes of the
\* previous call may not have been served yet.
CallAddOrderAfterReturn(p) ==
    /\ proc[p].act = "idle"
    /\ proc[p].last.act = "none" \/ (proc[p].last.act = "addOrder" /\ proc[p].last.ok)
    /\ budget > 0
    /\ budget' = budget - 1
    /\ proc' = [proc EXCEPT ![p] =
                   [act |-> "addOrder", pc |-> "ao_user",
                    v |-> [arg |-> [userId |-> CounterUser, sellingPriceLYD |-> 1,
                                    downPaymentLYD |-> 0, status |-> "pending"],
                           userData |-> DefaultRow(USERS_COLLECTION),
                           orderId |-> NULL],
                    stack |-> <<>>, aid |-> budget, pre |-> db,
                    last |-> Idle.last]]
    /\ log' = <<>>
    /\ UNCHANGED <<db, inflight, nextId, faults>>

NextCounter ==
    \/ \E p \in Procs :
          \/ CallAddOrderAfterReturn(p)
          \/ AddOrder(p)
          \/ GetAppSettings(p)
          \/ RecalculateUserStats(p)
    \/ Serve

SpecCounter == InitCounter /\ [][NextCounter]_vars

\* The number of addOrder calls made so far; when the last one has returned an
\* order, each of them has.
OrdersAdded == MaxCounterOrders - budget

\* C29: Per-user order counter. When the k-th addOrder for a user whose counter
\* started at 0, each run after the previous one returned its order, has returned
\* its order and every write has been served, the user's orderCounter is k and the
\* order carries invoice counter k.
C29_OrderCounter ==
    \A p \in Procs :
        (/\ proc[p].act = "idle"
         /\ proc[p].last.act = "addOrder"
         /\ proc[p].last.ok
         /\ inflight = <<>>) =>
            /\ db[USERS_COLLECTION][CounterUser].orderCounter = OrdersAdded
            /\ db[ORDERS_COLLECTION][proc[p].last.val].invoiceNumber = OrdersAdded


----------------------------------------------------------------------------
(* deleteTempOrder on a temp order that has a main order *)

\* User 1 has main order 1 (with its 'order' entry in the ledger), created for temp
\* order 1; temp order 2 has no user and no main order. One store request may fail.
InitTempDelete ==
    /\ \E r \in 1..MaxAmount, rep \in {NULL, 1} :
          db = [EmptyDb EXCEPT
                  ![USERS_COLLECTION] = [u \in {1} |-> UserRow(r, 1, 1)],
                  ![REPRESENTATIVES_COLLECTION] =
                      [x \in {1} |-> [assignedOrders |-> IF rep = NULL THEN 0 ELSE 1]],
                  ![ORDERS_COLLECTION] =
                      [o \in {1} |-> Merge(DefaultRow(ORDERS_COLLECTION),
                                           [userId |-> 1, sellingPriceLYD |-> MaxAmount,
                                            remainingAmount |-> r, invoiceNumber |-> 1,
                                            representativeId |-> rep])],
                  ![TRANSACTIONS_COLLECTION] =
                      [t \in {1} |-> [orderId |-> 1, customerId |-> 1, type |-> "order",
                                      amount |-> MaxAmount, description |-> "new order"]],
                  ![TEMP_ORDERS_COLLECTION] =
                      [t \in {1, 2} |->
                          Merge(DefaultRow(TEMP_ORDERS_COLLECTION),
                                IF t = 1
                                THEN [assignedUserId |-> 1, parentInvoiceId |-> 1,
                                      totalAmount |-> MaxAmount, remainingAmount |-> r]
                                ELSE [totalAmount |-> MaxAmount, remainingAmount |-> r])]]
    /\ inflight = <<>>
    /\ proc = [p \in OneCaller |-> Idle]
    /\ nextId = [c \in Collections |-> 3]
    /\ faults = MaxFaults
    /\ log = <<>>
    /\ budget = MaxTempDeletes

NextTempDelete ==
    \/ \E p \in Procs :
          \/ CallDeleteTempOrder(p)
          \/ DeleteTempOrder(p)
          \/ DeleteOrder(p)
          \/ RecalculateUserStats(p)
    \/ Serve

SpecTempDelete == InitTempDelete /\ [][NextTempDelete]_vars

\* C30: Cascading temp-order delete. Whenever deleteTempOrder(t) has returned true
\* for a temp order t with parentInvoiceId = o, t and the main order o are both
\* absent from the store, no Transaction row references o, and the debt of the user
\* who owned o is the recalculated one, without o.
C30_CascadingTempOrderDelete ==
    \A p \in Procs :
        (/\ proc[p].act = "idle"
         /\ proc[p].last.act = "deleteTempOrder"
         /\ proc[p].last.ok
         /\ proc[p].pre[TEMP_ORDERS_COLLECTION][proc[p].last.arg].parentInvoiceId # NULL) =>
            LET t == proc[p].last.arg
                o == proc[p].pre[TEMP_ORDERS_COLLECTION][t].parentInvoiceId
            IN /\ t \notin DOMAIN db[TEMP_ORDERS_COLLECTION]
               /\ o \notin DOMAIN db[ORDERS_COLLECTION]
               /\ \A x \in DOMAIN db[TRANSACTIONS_COLLECTION] :
                     db[TRANSACTIONS_COLLECTION][x].orderId # o
               /\ o \in DOMAIN proc[p].pre[ORDERS_COLLECTION] =>
                     LET u == proc[p].pre[ORDERS_COLLECTION][o].userId
                     IN db[USERS_COLLECTION][u].debt = SingleRun(db, u).debt


----------------------------------------------------------------------------
(* arrayUnion on the messages of a conversation *)

ConversationDoc == 1

\* The values a message can be: a primitive (a text) or an object (a Message).
UnionValues == [object : BOOLEAN, v : 1..2]

\* The messages field before the updates: missing or not an array, or an array of
\* up to two values.
InitialMessages ==
    {[isArray |-> FALSE, items |-> <<>>]}
       \cup {[isArray |-> TRUE, items |-> items] :
                items \in {<<>>} \cup {<<a>> : a \in UnionValues}
                                 \cup {<<a, b>> : a \in UnionValues, b \in UnionValues}}

InitUnions ==
    /\ \E messages \in InitialMessages :
          db = [EmptyDb EXCEPT ![CONVERSATIONS_COLLECTION] =
                    Put(EmptyRec, ConversationDoc, [messages |-> messages])]
    /\ proc = [p \in OneCaller |-> [Idle EXCEPT !.v = [issued |-> <<>>], !.pre = db]]
    /\ inflight = <<>>
    /\ nextId = [c \in Collections |-> 3]
    /\ faults = 0
    /\ log = <<>>
    /\ budget = MaxUnions

\* updateDoc(conversationRef, {messages: arrayUnion(value)}), awaited: the next
\* update is made when this one has completed.
CallArrayUnion(p) ==
    /\ proc[p].act = "idle"
    /\ inflight = <<>>
    /\ budget > 0
    /\ \E value \in UnionValues :
          /\ inflight' = <<Request("updateUnion", CONVERSATIONS_COLLECTION,
                                   ConversationDoc, EmptyRec, [messages |-> value],
                                   "call", 0, Len(proc[p].v.issued) + 1, p)>>
          /\ proc' = [proc EXCEPT ![p].v.issued = Append(@, value)]
    /\ budget' = budget - 1
    /\ UNCHANGED <<db, nextId, faults, log>>

NextUnions ==
    \/ \E p \in Procs : CallArrayUnion(p)
    \/ Serve

SpecUnions == InitUnions /\ [][NextUnions]_vars

\* The array with x exactly once if it was present, appended at the end otherwise;
\* a missing or non-array field counts as the empty array.
UnionOnce(field, x) ==
    LET items == IF field.isArray THEN field.items ELSE <<>>
    IN [isArray |-> TRUE,
        items |-> IF \E i \in 1..Len(items) : items[i] = x THEN items
                  ELSE Append(items, x)]

RECURSIVE UnionAll(_, _)
\* UnionOnce applied for each value of a sequence in turn.
UnionAll(field, values) ==
    IF values = <<>> THEN field
    ELSE UnionAll(UnionOnce(field, values[1]), Tail(values))

\* C31: Array-union semantics. Once the updates {messages: arrayUnion(x)} made one
\* after another have completed, the field holds what the unions give in turn:
\* each leaves the array as it is when x is present and appends x at the end
\* otherwise, a missing or non-array field counting as the empty array; so the
\* same arrayUnion(x) applied twice gives the same array as applied once.
C31_ArrayUnionSemantics ==
    \A p \in Procs :
        (inflight = <<>> /\ Issued(p) # <<>>) =>
            db[CONVERSATIONS_COLLECTION][ConversationDoc].messages
               = UnionAll(proc[p].pre[CONVERSATIONS_COLLECTION][ConversationDoc].messages,
                          Issued(p))


\* C32: Reassigning an order to its own representative. When
\* assignRepresentativeToOrder(orderId, rep) has returned true for an order whose
\* representativeId was rep.id already, that representative's assignedOrders is as
\* it was before the call.
C32_SameRepresentativeUnchanged ==
    \A p \in Procs :
        (/\ proc[p].act = "idle"
         /\ proc[p].last.act = "assignRepresentativeToOrder"
         /\ proc[p].last.ok
         /\ proc[p].last.arg.orderId \in DOMAIN proc[p].pre[ORDERS_COLLECTION]
         /\ proc[p].pre[ORDERS_COLLECTION][proc[p].last.arg.orderId].representativeId
               = proc[p].last.arg.rep) =>
            db[REPRESENTATIVES_COLLECTION][proc[p].last.arg.rep].assignedOrders
               = proc[p].pre[REPRESENTATIVES_COLLECTION][proc[p].last.arg.rep].assignedOrders


----------------------------------------------------------------------------
(* An operator update and a plain update of other fields of the same row *)

InitFrame ==
    /\ \E debt \in Amounts, orderCounter \in 0..1 :
          db = [EmptyDb EXCEPT ![USERS_COLLECTION] =
                    Put(EmptyRec, CounterUser, UserRow(debt, 0, orderCounter))]
    /\ proc = [p \in OneCaller |-> [Idle EXCEPT !.v = [issued |-> <<>>], !.pre = db]]
    /\ inflight = <<>>
    /\ nextId = [c \in Collections |-> 3]
    /\ faults = 0
    /\ log = <<>>
    /\ budget = MaxFrameUpdates

\* transaction.update(userRef, {orderCounter: increment(1)}) of addOrder.
CallIncrementCounter(p) ==
    /\ proc[p].act = "idle"
    /\ budget > 0
    /\ inflight' = Append(inflight,
           Request("update", USERS_COLLECTION, CounterUser, EmptyRec,
                   [orderCounter |-> 1], "call", 0, Len(proc[p].v.issued) + 1, p))
    /\ proc' = [proc EXCEPT ![p].v.issued =
                   Append(@, [op |-> "increment", id |-> CounterUser, amount |-> 1,
                              flag |-> TRUE])]
    /\ budget' = budget - 1
    /\ UNCHANGED <<db, nextId, faults, log>>

\* updateDoc(userRef, {debt: totalDebt, orderCount: totalOrdersCount}) of
\* recalculateUserStats.
CallWriteDebt(p) ==
    /\ proc[p].act = "idle"
    /\ budget > 0
    /\ \E totalDebt \in Amounts :
          /\ inflight' = Append(inflight,
                 Request("update", USERS_COLLECTION, CounterUser,
                         [debt |-> totalDebt, orderCount |-> 1], EmptyRec,
                         "call", 0, Len(proc[p].v.issued) + 1, p))
          /\ proc' = [proc EXCEPT ![p].v.issued =
                         Append(@, [op |-> "write", id |-> CounterUser,
                                    amount |-> totalDebt, flag |-> FALSE])]
    /\ budget' = budget - 1
    /\ UNCHANGED <<db, nextId, faults, log>>

NextFrame ==
    \/ \E p \in Procs : CallIncrementCounter(p)
    \/ \E p \in Procs : CallWriteDebt(p)
    \/ Serve

SpecFrame == InitFrame /\ [][NextFrame]_vars

\* The positions in the log at which a plain write of debt was applied.
DebtWrites(p) ==
    {j \in 1..Len(log) : log[j].e = "apply" /\ Issued(p)[log[j].seq].op = "write"}

\* The value most recently written to debt: that of the last plain write applied,
\* or the initial one.
LastWrittenDebt(p) ==
    IF DebtWrites(p) = {} THEN proc[p].pre[USERS_COLLECTION][CounterUser].debt
    ELSE LET j == CHOOSE k \in DebtWrites(p) : \A m \in DebtWrites(p) : m <= k
         IN Issued(p)[log[j].seq].amount

\* C33: Operator updates do not touch other fields. Whatever the order in which the
\* store serves an increment of orderCounter and updates of debt on the same row,
\* debt holds the value most recently written to it.
C33_OperatorUpdateFrame ==
    \A p \in Procs :
        db[USERS_COLLECTION][CounterUser].debt = LastWrittenDebt(p)


----------------------------------------------------------------------------
(* Two callers recording payments on two orders of one user at the same time *)

\* User 1 with orders 1 and 2, nothing paid yet.
InitConcurrent ==
    /\ db = [EmptyDb EXCEPT
               ![USERS_COLLECTION] = [u \in {1} |-> UserRow(2 * MaxAmount, 2, 2)],
               ![ORDERS_COLLECTION] =
                   [o \in {1, 2} |-> Merge(DefaultRow(ORDERS_COLLECTION),
                                           [userId |-> 1, sellingPriceLYD |-> MaxAmount,
                                            remainingAmount |-> MaxAmount,
                                            invoiceNumber |-> o])]]
    /\ inflight = <<>>
    /\ proc = [p \in TwoCallers |-> Idle]
    /\ nextId = [c \in Collections |-> 3]
    /\ faults = 0
    /\ log = <<>>
    /\ budget = MaxConcurrentActions

\* Caller p records a payment on order p; the second caller does so while the
\* first caller's action is running.
CallPaymentConcurrently(p) ==
    /\ proc[p].act = "idle"
    /\ proc[p].last.act = "none"
    /\ p = 1 \/ proc[1].act # "idle"
    /\ p \in DOMAIN db[ORDERS_COLLECTION]
    /\ \E amount \in 1..MaxAmount :
          Begin(p, "addTransaction", "at_start",
                [arg |-> [orderId |-> p, customerId |-> 1, type |-> "payment",
                          amount |-> amount, description |-> ""],
                 txId |-> NULL])

NextConcurrent ==
    \/ \E p \in Procs :
          \/ CallPaymentConcurrently(p)
          \/ AddTransaction(p)
          \/ RecalculateUserStats(p)
    \/ Serve

SpecConcurrent == InitConcurrent /\ [][NextConcurrent]_vars

\* C34: Concurrent actions converge. When two addTransaction payments on two
\* different orders of user U, run at the same time, have both returned success
\* and every write has been served, U.debt equals the sum of remainingAmount over
\* U's non-cancelled orders plus U's unconverted non-cancelled direct temp orders.
C34_ConcurrentActionsConverge ==
    (/\ inflight = <<>>
     /\ \A p \in Procs :
           /\ proc[p].act = "idle"
           /\ proc[p].last.act = "addTransaction"
           /\ proc[p].last.ok) =>
        DebtInvariant(db, 1)


----------------------------------------------------------------------------
(* Two callers adding an order for the same user at the same time *)

InitConcurrentOrders ==
    /\ db = [EmptyDb EXCEPT
               ![USERS_COLLECTION] = [u \in {CounterUser} |-> UserRow(0, 0, 0)],
               ![SETTINGS_COLLECTION] =
                   [x \in {MainSettingsId} |-> SettingsRow(2, NULL, NULL)]]
    /\ inflight = <<>>
    /\ proc = [p \in TwoCallers |-> Idle]
    /\ nextId = [c \in Collections |-> 1]
    /\ faults = 0
    /\ log = <<>>
    /\ budget = MaxConcurrentOrders

\* A caller adds an order for the user; the second caller does so while the first
\* caller's addOrder is running.
CallAddOrderConcurrently(p) ==
    /\ proc[p].act = "idle"
    /\ proc[p].last.act = "none"
    /\ p = 1 \/ proc[1].act # "idle"
    /\ Begin(p, "addOrder", "ao_user",
             [arg |-> [userId |-> CounterUser, sellingPriceLYD |-> 1,
                       downPaymentLYD |-> 0, status |-> "pending"],
              userData |-> DefaultRow(USERS_COLLECTION), orderId |-> NULL])

NextConcurrentOrders ==
    \/ \E p \in Procs :
          \/ CallAddOrderConcurrently(p)
          \/ AddOrder(p)
          \/ GetAppSettings(p)
          \/ RecalculateUserStats(p)
    \/ Serve

SpecConcurrentOrders == InitConcurrentOrders /\ [][NextConcurrentOrders]_vars

\* C35: Invoice numbers are unique per user. No two orders of the same user carry
\* the same invoiceNumber, also when two addOrder calls for the user run at the
\* same time.
C35_InvoiceNumbersUnique ==
    \A a, b \in DOMAIN db[ORDERS_COLLECTION] :
        (/\ a # b
         /\ db[ORDERS_COLLECTION][a].userId = db[ORDERS_COLLECTION][b].userId) =>
            db[ORDERS_COLLECTION][a].invoiceNumber # db[ORDERS_COLLECTION][b].invoiceNumber


----------------------------------------------------------------------------
(* recalculateUserStats with a failing store request *)

\* User 1 with two orders and a direct temp order, debt and orderCount up to date;
\* one store request may fail.
InitRecalcFaults ==
    /\ \E r1 \in 1..MaxAmount, r2 \in Amounts, r3 \in Amounts,
          status \in {"pending", "cancelled"} :
          db = [EmptyDb EXCEPT
                  ![USERS_COLLECTION] =
                      [u \in {1} |-> UserRow(r1 + (IF status = "cancelled" THEN 0 ELSE r2),
                                             IF status = "cancelled" THEN 1 ELSE 2, 2)],
                  ![ORDERS_COLLECTION] =
                      [o \in {1, 2} |->
                          Merge(DefaultRow(ORDERS_COLLECTION),
                                [userId |-> 1,
                                 remainingAmount |-> IF o = 1 THEN r1 ELSE r2,
                                 status |-> IF o = 1 THEN "pending" ELSE status])],
                  ![TEMP_ORDERS_COLLECTION] =
                      [t \in {1} |-> Merge(DefaultRow(TEMP_ORDERS_COLLECTION),
                                           [assignedUserId |-> 1, remainingAmount |-> r3])]]
    /\ inflight = <<>>
    /\ proc = [p \in OneCaller |-> Idle]
    /\ nextId = [c \in Collections |-> 3]
    /\ faults = MaxFaults
    /\ log = <<>>
    /\ budget = MaxFailedRecalcs

SpecRecalcFaults == InitRecalcFaults /\ [][NextRecalc]_vars

\* C36: Recalculation does not write on a failed read. When a store request of
\* recalculateUserStats has failed - the orders query, the temp-orders query or
\* the update itself - the users' debt and orderCount are as they were before the
\* call.
C36_NoWriteOnFailedRead ==
    \A p \in Procs :
        (/\ proc[p].act = "idle"
         /\ proc[p].last.act = "recalculateUserStats"
         /\ budget = MaxFailedRecalcs - 1
         /\ faults < MaxFaults) =>
            db[USERS_COLLECTION] = proc[p].pre[USERS_COLLECTION]


\* C37: Payment round trip. When a payment added with addTransaction on an order
\* that nothing else has touched has been deleted again with deleteTransaction,
\* the order's remainingAmount is the one it had before the payment,
\* sellingPriceLYD - downPaymentLYD.
C37_PaymentRoundTrip ==
    \A p \in Procs :
        (/\ proc[p].act = "idle"
         /\ proc[p].last.act = "deleteTransaction"
         /\ proc[p].last.ok
         /\ inflight = <<>>
         /\ budget = MaxLedgerActions - 2
         /\ proc[p].pre[TRANSACTIONS_COLLECTION][proc[p].last.arg].description
               # "down payment") =>
            LET orderId == proc[p].pre[TRANSACTIONS_COLLECTION][proc[p].last.arg].orderId
                order == db[ORDERS_COLLECTION][orderId]
            IN order.remainingAmount = order.sellingPriceLYD - order.downPaymentLYD


----------------------------------------------------------------------------
(* Payments added, amended and deleted on one order *)

NextPayments ==
    \/ \E p \in Procs :
          \/ CallAddTransaction(p)
          \/ AddTransaction(p)
          \/ CallUpdateTransaction(p)
          \/ UpdateTransaction(p)
          \/ CallDeleteTransaction(p)
          \/ DeleteTransaction(p)
          \/ RecalculateUserStats(p)
    \/ Serve

SpecPayments == InitLedger /\ [][NextPayments]_vars

\* C38: remainingAmount is never negative. Starting from an order with
\* remainingAmount >= 0, after any sequence of addTransaction, updateTransaction
\* and deleteTransaction calls with non-negative amounts, every order's
\* remainingAmount is >= 0.
C38_RemainingNeverNegative ==
    \A o \in DOMAIN db[ORDERS_COLLECTION] : db[ORDERS_COLLECTION][o].remainingAmount >= 0


----------------------------------------------------------------------------
(* updateTransaction and deleteTransaction on an 'order'-type entry *)

\* The caller amends or deletes the 'order' entry of an order.
CallAmendOrderEntry(p) ==
    /\ proc[p].act = "idle"
    /\ \E transactionId \in {t \in DOMAIN db[TRANSACTIONS_COLLECTION] :
                                db[TRANSACTIONS_COLLECTION][t].type = "order"} :
          \/ \E newAmount \in Amounts :
                Begin(p, "updateTransaction", "ut_get",
                      [arg |-> [transactionId |-> transactionId, newAmount |-> newAmount]])
          \/ Begin(p, "deleteTransaction", "dt_get",
                   [arg |-> transactionId, batchErr |-> FALSE, userId |-> NULL])

NextEntries ==
    \/ \E p \in Procs :
          \/ CallAmendOrderEntry(p)
          \/ UpdateTransaction(p)
          \/ DeleteTransaction(p)
          \/ RecalculateUserStats(p)
    \/ Serve

SpecEntries == InitLedger /\ [][NextEntries]_vars

\* The id of the transaction the action that returned was called on.
AmendedEntry(p) ==
    IF proc[p].last.act = "updateTransaction" THEN proc[p].last.arg.transactionId
    ELSE proc[p].last.arg

\* C40: Only payment transactions move the balance on amend/delete. When
\* updateTransaction or deleteTransaction has returned success for a transaction
\* whose type is not 'payment', the referenced order's remainingAmount is as it
\* was before the call.
C40_OnlyPaymentsMoveBalance ==
    \A p \in Procs :
        (/\ proc[p].act = "idle"
         /\ proc[p].last.act \in {"updateTransaction", "deleteTransaction"}
         /\ proc[p].last.ok
         /\ inflight = <<>>
         /\ proc[p].pre[TRANSACTIONS_COLLECTION][AmendedEntry(p)].type # "payment") =>
            LET orderId == proc[p].pre[TRANSACTIONS_COLLECTION][AmendedEntry(p)].orderId
            IN db[ORDERS_COLLECTION][orderId].remainingAmount
                  = proc[p].pre[ORDERS_COLLECTION][orderId].remainingAmount


----------------------------------------------------------------------------
(* Payments on a temp order that has a main order *)

\* Temp order 1 of user 1, converted into main order 1, with equal remaining
\* amounts.
InitTempPayments ==
    /\ \E r \in 1..MaxAmount :
          db = [EmptyDb EXCEPT
                  ![USERS_COLLECTION] = [u \in {1} |-> UserRow(r, 1, 1)],
                  ![ORDERS_COLLECTION] =
                      [o \in {1} |-> Merge(DefaultRow(ORDERS_COLLECTION),
                                           [userId |-> 1, sellingPriceLYD |-> MaxAmount,
                                            remainingAmount |-> r, invoiceNumber |-> 1])],
                  ![TEMP_ORDERS_COLLECTION] =
                      [t \in {1} |-> Merge(DefaultRow(TEMP_ORDERS_COLLECTION),
                                           [assignedUserId |-> 1, parentInvoiceId |-> 1,
                                            totalAmount |-> MaxAmount,
                                            remainingAmount |-> r,
                                            subOrderId |-> 1, subOrderRemaining |-> r])]]
    /\ inflight = <<>>
    /\ proc = [p \in OneCaller |-> Idle]
    /\ nextId = [c \in Collections |-> 3]
    /\ faults = 0
    /\ log = <<>>
    /\ budget = MaxTempPayments

NextTempPayments ==
    \/ \E p \in Procs :
          \/ CallAddTempOrderPayment(p)
          \/ AddTempOrderPayment(p)
          \/ RecalculateUserStats(p)
    \/ Serve

SpecTempPayments == InitTempPayments /\ [][NextTempPayments]_vars

\* C39: Temp order and its main order stay in step. For a temp order t converted
\* into main order o with equal remainingAmount, when addTempOrderPayment calls on
\* t, made one after another, have returned success and their writes have been
\* served, o.remainingAmount equals t.remainingAmount.
C39_TempAndMainInStep ==
    \A p \in Procs :
        (/\ proc[p].act = "idle"
         /\ proc[p].last.act = "addTempOrderPayment"
         /\ proc[p].last.ok
         /\ inflight = <<>>) =>
            LET t == proc[p].last.arg
                o == db[TEMP_ORDERS_COLLECTION][t].parentInvoiceId
            IN db[ORDERS_COLLECTION][o].remainingAmount
                  = db[TEMP_ORDERS_COLLECTION][t].remainingAmount

============================================================================
